---- MODULE Spec2Model ----
(***************************************************************************)
(* Geolocation provider abstraction of GeoBlinko.                          *)
(*                                                                         *)
(* Server side: src/server/lib/locationService.ts (LocationService facade, *)
(* AmapClient, GoogleMapsClient, OpenStreetMapClient) and                  *)
(* src/server/lib/location.ts (the stand-alone AmapClient module).         *)
(* Front end: src/app/src/services/MapService.ts (MapService).             *)
(*                                                                         *)
(* Coordinates are integers in units of 1e-4 degree, so that the bounding  *)
(* box of isInsideChina keeps its exact edges.                             *)
(* A JavaScript optional number is a sequence: <<>> is undefined, <<v>> is *)
(* the number v.  A JavaScript optional string is a string, Undef standing *)
(* for undefined.                                                          *)
(***************************************************************************)
EXTENDS Integers, Sequences, FiniteSets, TLC

VARIABLES
    env,              \* process.env of the server process
    modLocation,      \* load state of the module server/lib/location.ts
    modService,       \* load state of the module server/lib/locationService.ts
    service,          \* the exported locationService instance
    calls,            \* the facade calls, one record per caller
    ms,               \* the front end's MapService instance
    picker,           \* the LocationPicker component's current-location state
    mock,             \* the call made of the MockAmapClient
    sdk,              \* the browser's map SDKs: scripts, globals, loaders, load calls
    view,             \* the MapService's map, the initMap in flight, the picker's effect
    geolocation,      \* the GeolocationService and the browser's position watches
    editor,           \* the editor's locations and its automatic location fetch
    search            \* the picker's keyword search and its requests in flight

vars == <<env, modLocation, modService, service, calls, ms, picker, mock,
         sdk, view, geolocation, editor, search>>

---------------------------------------------------------------------------
(* Bounds of the model *)

MaxCalls == 1         \* callers of the facade, under every environment
MaxConcurrent == 2    \* facade calls in flight at once, under ConcurrentEnvs
MaxPois == 2          \* longest result list a provider response carries

Callers == 1..MaxCalls
Slots == 1..MaxConcurrent

---------------------------------------------------------------------------
(* JavaScript values *)

Undef == "undefined"
Truthy(v) == v # Undef /\ v # ""
\* a || b
Or(a, b) == IF Truthy(a) THEN a ELSE b

NoNum == <<>>
Num(v) == <<v>>

\* { latitude, longitude }
NoPoint == [latitude |-> NoNum, longitude |-> NoNum]
PointOf(lat, lon) == [latitude |-> Num(lat), longitude |-> Num(lon)]

---------------------------------------------------------------------------
(* MapProvider, the bounding box *)

AUTO == "auto"
AMAP == "amap"
GOOGLE == "google"
OPENSTREETMAP == "osm"
MapProvider == {AUTO, AMAP, GOOGLE, OPENSTREETMAP}

ChinaLonMin == 720040
ChinaLonMax == 1378347
ChinaLatMin == 8293
ChinaLatMax == 558271

\* An inside-China test with strict comparisons.
isInsideChinaStrict(lat, lon) ==
    lon > ChinaLonMin /\ lon < ChinaLonMax /\ lat > ChinaLatMin /\ lat < ChinaLatMax

isInsideChina(lat, lon) ==
    lon >= ChinaLonMin /\ lon <= ChinaLonMax /\ lat >= ChinaLatMin /\ lat <= ChinaLatMax

\* Query points: Beijing (inside the box), New York (outside).
Beijing == [lat |-> 399042, lon |-> 1164074]
NewYork == [lat |-> 407128, lon |-> -740060]
Points == {Beijing, NewYork}

---------------------------------------------------------------------------
(* wgs84ToGcj02 (MapService.ts; LocationPicker keeps a copy of it) *)

Shanghai == [lat |-> 312304, lon |-> 1214737]
\* Points on each edge of the bounding box and 1e-4 degree beyond it.
WestEdge == [lat |-> 350000, lon |-> ChinaLonMin]
BeyondWest == [lat |-> 350000, lon |-> ChinaLonMin - 1]
EastEdge == [lat |-> 350000, lon |-> ChinaLonMax]
BeyondEast == [lat |-> 350000, lon |-> ChinaLonMax + 1]
SouthEdge == [lat |-> ChinaLatMin, lon |-> 1050000]
BeyondSouth == [lat |-> ChinaLatMin - 1, lon |-> 1050000]
NorthEdge == [lat |-> ChinaLatMax, lon |-> 1050000]
BeyondNorth == [lat |-> ChinaLatMax + 1, lon |-> 1050000]
DevicePoints ==
    Points \cup {Shanghai, WestEdge, BeyondWest, EastEdge, BeyondEast,
                 SouthEdge, BeyondSouth, NorthEdge, BeyondNorth}

outOfChina(lat, lng) ==
    lng < ChinaLonMin \/ lng > ChinaLonMax \/ lat < ChinaLatMin \/ lat > ChinaLatMax

\* <<dLat, dLng>> as wgs84ToGcj02 computes them from transformLat and
\* transformLng with PI, A and EE, at the points of DevicePoints: the source's
\* expressions evaluated in IEEE 754 doubles and rounded to 1e-4 degree.
GcjDelta ==
    <<399042, 1164074>> :> <<14, 62>> @@
    <<407128, -740060>> :> <<-30, 385>> @@
    <<312304, 1214737>> :> <<-19, 45>> @@
    <<350000, 720040>> :> <<-15, 40>> @@
    <<350000, 720039>> :> <<-15, 40>> @@
    <<350000, 1378347>> :> <<-4, 50>> @@
    <<350000, 1378348>> :> <<-4, 50>> @@
    <<8293, 1050000>> :> <<8, 21>> @@
    <<8292, 1050000>> :> <<8, 21>> @@
    <<558271, 1050000>> :> <<14, 55>> @@
    <<558272, 1050000>> :> <<14, 55>>
dLat(lat, lng) == GcjDelta[<<lat, lng>>][1]
dLng(lat, lng) == GcjDelta[<<lat, lng>>][2]

\* wgs84ToGcj02 without the test of the bounding box.
wgs84ToGcj02NoBox(lat, lon) ==
    [latitude |-> lat + dLat(lat, lon), longitude |-> lon + dLng(lat, lon)]

wgs84ToGcj02(lat, lon) ==
    IF outOfChina(lat, lon) THEN [latitude |-> lat, longitude |-> lon]
    ELSE [latitude |-> lat + dLat(lat, lon), longitude |-> lon + dLng(lat, lon)]

---------------------------------------------------------------------------
(* Environment and configuration *)

ProviderStrings == {Undef, AUTO, AMAP, GOOGLE, OPENSTREETMAP, "baidu"}

\* The key variables as deployments set them: unset, set, or set to the
\* empty string with a prefixed variant carrying the key.
AmapKeyEnvs ==
    { <<Undef, Undef, Undef>>, <<"amap-key", Undef, Undef>>, <<"", "amap-key", Undef>> }
GoogleKeyEnvs ==
    { <<Undef, Undef>>, <<"google-key", Undef>>, <<"", "google-key">> }

Envs ==
    { [ MAP_PROVIDER |-> p,
        AMAP_WEB_API_KEY |-> a[1],
        VITE_AMAP_WEB_API_KEY |-> a[2],
        NEXT_PUBLIC_AMAP_WEB_API_KEY |-> a[3],
        GOOGLE_MAPS_API_KEY |-> g[1],
        VITE_GOOGLE_MAPS_API_KEY |-> g[2] ]
      : p \in ProviderStrings, a \in AmapKeyEnvs, g \in GoogleKeyEnvs }

getMapConfig(e) ==
    LET providerStr == Or(e.MAP_PROVIDER, AUTO)
        provider == IF providerStr \in MapProvider THEN providerStr ELSE AUTO
    IN  [ provider |-> provider,
          amapApiKey |-> Or(Or(e.AMAP_WEB_API_KEY, e.VITE_AMAP_WEB_API_KEY),
                            e.NEXT_PUBLIC_AMAP_WEB_API_KEY),
          googleApiKey |-> Or(e.GOOGLE_MAPS_API_KEY, e.VITE_GOOGLE_MAPS_API_KEY) ]

---------------------------------------------------------------------------
(* LocationService: construction and provider selection *)

AmapClient == "AmapClient"
GoogleMapsClient == "GoogleMapsClient"
OpenStreetMapClient == "OpenStreetMapClient"

NoConfig == [provider |-> Undef, amapApiKey |-> Undef, googleApiKey |-> Undef]
NoService ==
    [config |-> NoConfig, amapClient |-> Undef, googleClient |-> Undef, osmClient |-> Undef]

\* A Partial<MapConfig>: Absent marks a field the object does not have.
Absent == "<absent>"
NoOverride == [provider |-> Absent, amapApiKey |-> Absent, googleApiKey |-> Absent]
\* { ...base, ...over }
Spread(base, over) ==
    [f \in DOMAIN base |-> IF over[f] = Absent THEN base[f] ELSE over[f]]

\* The environments of the concurrent runs: automatic and forced selection,
\* the China key set, the Global key set or unset.
ConcurrentEnvs ==
    { e \in Envs : /\ e.MAP_PROVIDER \in {Undef, GOOGLE}
                   /\ e.AMAP_WEB_API_KEY = "amap-key"
                   /\ e.GOOGLE_MAPS_API_KEY # "" }

\* new LocationService(config) with every key-requiring client constructed
\* regardless of its key.
LocationServiceNoKeyCheck(e, config) ==
    [ config |-> Spread(getMapConfig(e), config),
      amapClient |-> AmapClient,
      googleClient |-> GoogleMapsClient,
      osmClient |-> OpenStreetMapClient ]

\* new LocationService(config) testing the China key for both clients.
LocationServiceOneKeyTest(e, config) ==
    LET cfg == Spread(getMapConfig(e), config)
    IN  [ config |-> cfg,
          amapClient |-> IF Truthy(cfg.amapApiKey) THEN AmapClient ELSE Undef,
          googleClient |-> IF Truthy(cfg.amapApiKey) THEN GoogleMapsClient ELSE Undef,
          osmClient |-> OpenStreetMapClient ]

\* new LocationService(config)
LocationService(e, config) ==
    LET cfg == Spread(getMapConfig(e), config)
    IN  [ config |-> cfg,
          amapClient |-> IF Truthy(cfg.amapApiKey) THEN AmapClient ELSE Undef,
          googleClient |-> IF Truthy(cfg.googleApiKey) THEN GoogleMapsClient ELSE Undef,
          osmClient |-> OpenStreetMapClient ]

\* selectProvider with the forced modes returning their client unchecked.
selectProviderUnchecked(svc, latitude, longitude) ==
    LET provider == svc.config.provider
    IN  IF provider = AMAP THEN svc.amapClient
        ELSE IF provider = GOOGLE THEN svc.googleClient
        ELSE IF provider = OPENSTREETMAP THEN svc.osmClient
        ELSE IF latitude # NoNum /\ longitude # NoNum
                /\ isInsideChina(latitude[1], longitude[1]) /\ svc.amapClient # Undef
             THEN svc.amapClient
        ELSE IF svc.googleClient # Undef THEN svc.googleClient
        ELSE IF svc.amapClient # Undef THEN svc.amapClient
        ELSE svc.osmClient

\* selectProvider with the fallback order of its comment: Google, OSM, Amap.
selectProviderOsmFirst(svc, latitude, longitude) ==
    LET provider == svc.config.provider
    IN  IF provider = AMAP /\ svc.amapClient # Undef THEN svc.amapClient
        ELSE IF provider = GOOGLE /\ svc.googleClient # Undef THEN svc.googleClient
        ELSE IF provider = OPENSTREETMAP THEN svc.osmClient
        ELSE IF latitude # NoNum /\ longitude # NoNum
                /\ isInsideChina(latitude[1], longitude[1]) /\ svc.amapClient # Undef
             THEN svc.amapClient
        ELSE IF svc.googleClient # Undef THEN svc.googleClient
        ELSE svc.osmClient

selectProvider(svc, latitude, longitude) ==
    LET provider == svc.config.provider
    IN  IF provider = AMAP /\ svc.amapClient # Undef THEN svc.amapClient
        ELSE IF provider = GOOGLE /\ svc.googleClient # Undef THEN svc.googleClient
        ELSE IF provider = OPENSTREETMAP THEN svc.osmClient
        ELSE IF latitude # NoNum /\ longitude # NoNum
                /\ isInsideChina(latitude[1], longitude[1]) /\ svc.amapClient # Undef
             THEN svc.amapClient
        ELSE IF latitude # NoNum /\ longitude # NoNum /\ svc.googleClient # Undef
             THEN svc.googleClient
        ELSE IF svc.googleClient # Undef THEN svc.googleClient
        ELSE IF svc.amapClient # Undef THEN svc.amapClient
        ELSE svc.osmClient

---------------------------------------------------------------------------
(* HTTP responses *)

DefaultPageSize == 10
PageSizes == {1, DefaultPageSize}

\* A response body.  shape: "object" (a JSON object with a status field),
\* "array" (a JSON array of n places), "place" (one Nominatim place, with
\* display_name), "error" (a JSON object holding only an error field),
\* "geo" (the ipapi.co object), "null" (the JSON value null).
\* n counts pois / results / places, aois the areas of interest of a regeocode.
Body(shape, status, n, aois, regeo, lat, lon) ==
    [shape |-> shape, status |-> status, n |-> n, aois |-> aois, regeo |-> regeo,
     lat |-> lat, lon |-> lon]
NoBody == Body("none", Undef, 0, 0, FALSE, NoNum, NoNum)

AmapSearchBodies ==
    { Body("object", "1", n, 0, FALSE, NoNum, NoNum) : n \in 0..MaxPois }
    \cup { Body("object", "0", 0, 0, FALSE, NoNum, NoNum) }
AmapRegeoBodies ==
    { Body("object", "1", n, a, TRUE, NoNum, NoNum) : n \in 0..1, a \in 0..1 }
    \cup { Body("object", "1", 0, 0, FALSE, NoNum, NoNum),
           Body("object", "0", 0, 0, FALSE, NoNum, NoNum) }
GoogleBodies ==
    { Body("object", "OK", n, 0, FALSE, NoNum, NoNum) : n \in 0..MaxPois }
    \cup { Body("object", "ZERO_RESULTS", 0, 0, FALSE, NoNum, NoNum),
           Body("object", "REQUEST_DENIED", 0, 0, FALSE, NoNum, NoNum) }
OsmSearchBodies ==
    { Body("array", Undef, n, 0, FALSE, NoNum, NoNum) : n \in 0..MaxPois }
    \cup { Body("error", Undef, 0, 0, FALSE, NoNum, NoNum) }
OsmReverseBodies ==
    { Body("place", Undef, 1, 0, FALSE, NoNum, NoNum),
      Body("error", Undef, 0, 0, FALSE, NoNum, NoNum) }
IpapiBodies ==
    { Body("geo", Undef, 0, 0, FALSE, Num(p.lat), Num(p.lon)) : p \in Points }
    \cup { Body("error", Undef, 0, 0, FALSE, NoNum, NoNum),
           Body("null", Undef, 0, 0, FALSE, NoNum, NoNum) }

BodiesOf(client, op) ==
    IF op = "getIPLocation" THEN IpapiBodies
    ELSE IF client = AmapClient
         THEN (IF op = "reverseGeocode" THEN AmapRegeoBodies ELSE AmapSearchBodies)
    ELSE IF client = GoogleMapsClient THEN GoogleBodies
    ELSE IF op = "searchLocation" THEN OsmSearchBodies
    ELSE OsmReverseBodies

\* What axios.get settles with: a body, or a rejection (timeout, transport
\* failure or a non-2xx status).
Responses(client, op) ==
    { [net |-> "ok", body |-> b] : b \in BodiesOf(client, op) }
    \cup { [net |-> f, body |-> NoBody] : f \in {"timeout", "network"} }
NoResponse == [net |-> "none", body |-> NoBody]

---------------------------------------------------------------------------
(* Results *)

\* A LocationInfo; the fields not listed are copied from the body likewise.
LocationInfo(id, name, type, distance, latitude, longitude) ==
    [id |-> id, name |-> name, type |-> type, distance |-> distance,
     latitude |-> latitude, longitude |-> longitude]
NoLocation == LocationInfo(<<>>, Undef, Undef, Undef, NoNum, NoNum)

ReverseGeocodeResult(address, poiName, distance) ==
    [address |-> address, poiName |-> poiName, distance |-> distance]
NoGeocode == ReverseGeocodeResult(<<>>, Undef, Undef)

\* What a promise settles with.
Result(kind, error, items, geo, loc) ==
    [kind |-> kind, error |-> error, items |-> items, geo |-> geo, loc |-> loc]
NoResult == Result("none", Undef, <<>>, NoGeocode, NoLocation)
Rejected(error) == Result("error", error, <<>>, NoGeocode, NoLocation)
List(items) == Result("list", Undef, items, NoGeocode, NoLocation)
Geocode(geo) == Result("geocode", Undef, <<>>, geo, NoLocation)
Location(loc) == Result("location", Undef, <<>>, NoGeocode, loc)

\* array.slice(0, k)
Slice(seq, k) == SubSeq(seq, 1, IF k < Len(seq) THEN k ELSE Len(seq))

---------------------------------------------------------------------------
(* Provider clients: the request each operation issues and how it turns    *)
(* the response body into its result                                       *)

\* The pois of an Amap body; the nearest one carries its distance.
AmapPois(n) ==
    [j \in 1..n |-> LocationInfo(<<"poi", j>>, <<"poi", j>>, "poi-type",
                                 IF j = 1 THEN "m" ELSE Undef, NoNum, NoNum)]
GooglePlaces(n) ==
    [j \in 1..n |-> LocationInfo(<<"place", j>>, <<"place", j>>, "place", Undef, NoNum, NoNum)]
OsmPlaces(n) ==
    [j \in 1..n |-> LocationInfo(<<"osm", j>>, <<"osm", j>>, "place", Undef, NoNum, NoNum)]

\* AmapClient.searchLocation without its status check.
AmapSearchLocationNoStatus(body) == List(AmapPois(body.n))

AmapSearchLocation(body) ==
    IF body.status # "1" THEN Rejected("Amap API error")
    ELSE List(AmapPois(body.n))

AmapSearchNearby(body) ==
    IF body.status # "1" THEN Rejected("Amap API error")
    ELSE List(AmapPois(body.n))

\* AmapClient.reverseGeocode looking at the pois before the aois.
AmapReverseGeocodePoiFirst(body) ==
    IF body.status # "1" THEN Rejected("Amap API error")
    ELSE IF ~body.regeo THEN Rejected("No reverse geocode result")
    ELSE LET distance == IF body.n > 0 THEN "m" ELSE Undef
         IN  IF body.n > 0
             THEN Geocode(ReverseGeocodeResult(
                    <<"district", "poi1", "streetNumber">>, "poi1", distance))
             ELSE IF body.aois > 0
             THEN Geocode(ReverseGeocodeResult(
                    <<"district", "aoi1", "township", "streetNumber">>, "aoi1", distance))
             ELSE Geocode(ReverseGeocodeResult(<<"district", "streetNumber">>, Undef, distance))

\* The address is the concatenation of the listed parts; the nearest poi of
\* the body carries a distance, whatever the aois.
AmapReverseGeocode(body) ==
    IF body.status # "1" THEN Rejected("Amap API error")
    ELSE IF ~body.regeo THEN Rejected("No reverse geocode result")
    ELSE LET distance == IF body.n > 0 THEN "m" ELSE Undef
         IN  IF body.aois > 0
             THEN Geocode(ReverseGeocodeResult(
                    <<"district", "aoi1", "township", "streetNumber">>, "aoi1", distance))
             ELSE IF body.n > 0
             THEN Geocode(ReverseGeocodeResult(
                    <<"district", "poi1", "streetNumber">>, "poi1", distance))
             ELSE Geocode(ReverseGeocodeResult(<<"district", "streetNumber">>, Undef, distance))

GoogleSearchLocation(body, pageSize) ==
    IF body.status # "OK" THEN Rejected("Google Maps API error")
    ELSE List(Slice(GooglePlaces(body.n), pageSize))

GoogleSearchNearby(body, pageSize) ==
    IF body.status # "OK" THEN Rejected("Google Maps API error")
    ELSE List(Slice(GooglePlaces(body.n), pageSize))

GoogleReverseGeocode(body) ==
    IF body.status # "OK" THEN Rejected("Google Maps API error")
    ELSE IF body.n = 0 THEN Rejected("TypeError")      \* results[0] is undefined
    ELSE Geocode(ReverseGeocodeResult(<<"formatted_address">>, Undef, Undef))

OsmSearchLocation(body) ==
    IF body.shape # "array" THEN Rejected("TypeError")  \* response.data.map is no function
    ELSE List(OsmPlaces(body.n))

\* OpenStreetMapClient.searchNearby answering with the places around the point.
OsmSearchNearbyMany(body, pageSize) ==
    IF body.shape # "place" THEN Rejected("TypeError")
    ELSE List(OsmPlaces(pageSize))

OsmSearchNearby(body, pageSize) ==
    IF body.shape # "place" THEN Rejected("TypeError")  \* display_name is undefined
    ELSE List(<<LocationInfo(<<"osm", 0>>, "display_name", "current", "0 m", NoNum, NoNum)>>)

OsmReverseGeocode(body) ==
    IF body.shape # "place" THEN Rejected("TypeError")  \* display_name is undefined
    ELSE Geocode(ReverseGeocodeResult(<<"display_name">>, "display_name", Undef))

\* reverseGeocode of the AmapClient of server/lib/location.ts: the same
\* choice, the poi's name annotated with its distance, and every failure
\* rethrown from the catch block.
LocationAmapReverseGeocode(body) ==
    IF body.status # "1" \/ ~body.regeo THEN Rejected("Failed to reverse geocode")
    ELSE LET distance == IF body.n > 0 THEN "m" ELSE Undef
         IN  IF body.aois > 0
             THEN Geocode(ReverseGeocodeResult(
                    <<"district", "aoi1", "township", "streetNumber">>, "aoi1", distance))
             ELSE IF body.n > 0
             THEN Geocode(ReverseGeocodeResult(
                    <<"district", "poi1", "streetNumber">>, "poi1 nearby m", distance))
             ELSE Geocode(ReverseGeocodeResult(<<"district", "streetNumber">>, Undef, distance))

\* The URLs an operation requests, in order.
ClientRequests(client, op) ==
    IF client = AmapClient
    THEN (IF op = "searchLocation" THEN <<"amap/v5/place/text">>
          ELSE IF op = "searchNearby" THEN <<"amap/v5/place/around">>
          ELSE <<"amap/v3/geocode/regeo">>)
    ELSE IF client = GoogleMapsClient
    THEN (IF op = "searchLocation" THEN <<"google/place/textsearch/json">>
          ELSE IF op = "searchNearby" THEN <<"google/place/nearbysearch/json">>
          ELSE <<"google/geocode/json">>)
    ELSE (IF op = "searchLocation" THEN <<"nominatim/search">>
          ELSE <<"nominatim/reverse">>)

\* The coordinates a request carries: every client writes the latitude and
\* longitude of its params into the query string as they are (location,
\* latlng, or lat and lon); a keyword search carries none.
RequestLocation(client, op, latitude, longitude) ==
    IF op = "searchLocation" THEN NoPoint
    ELSE [latitude |-> latitude, longitude |-> longitude]

\* The value the client's promise settles with.
ClientResult(client, op, pageSize, resp) ==
    IF resp.net # "ok" THEN Rejected(resp.net)
    ELSE IF client = AmapClient
    THEN (IF op = "searchLocation" THEN AmapSearchLocation(resp.body)
          ELSE IF op = "searchNearby" THEN AmapSearchNearby(resp.body)
          ELSE AmapReverseGeocode(resp.body))
    ELSE IF client = GoogleMapsClient
    THEN (IF op = "searchLocation" THEN GoogleSearchLocation(resp.body, pageSize)
          ELSE IF op = "searchNearby" THEN GoogleSearchNearby(resp.body, pageSize)
          ELSE GoogleReverseGeocode(resp.body))
    ELSE (IF op = "searchLocation" THEN OsmSearchLocation(resp.body)
          ELSE IF op = "searchNearby" THEN OsmSearchNearby(resp.body, pageSize)
          ELSE OsmReverseGeocode(resp.body))

---------------------------------------------------------------------------
(* Facade calls *)

FacadeOps == {"searchLocation", "searchNearby", "reverseGeocode"}

\* pc: "idle" (no call made yet), "awaiting" (suspended at axios.get),
\* "settled" (the client's promise settled), "done" (the facade's promise settled).
\* invoked: the clients the facade delegated to; urls: the requests issued;
\* location: the coordinates the request carries.
IdleCall ==
    [pc |-> "idle", op |-> Undef, lat |-> NoNum, lon |-> NoNum, pageSize |-> DefaultPageSize,
     client |-> Undef, invoked |-> <<>>, urls |-> <<>>, location |-> NoPoint,
     resp |-> NoResponse,
     clientResult |-> NoResult, result |-> NoResult]

Begin(op, lat, lon, pageSize) ==
    [IdleCall EXCEPT !.op = op, !.lat = lat, !.lon = lon, !.pageSize = pageSize]

\* client.<op>(params), up to its await; calling a method of undefined throws.
Invoke(call, client) ==
    IF client = Undef
    THEN [call EXCEPT !.pc = "done", !.client = client, !.result = Rejected("TypeError")]
    ELSE [call EXCEPT !.pc = "awaiting", !.client = client,
                      !.invoked = Append(@, client),
                      !.urls = @ \o ClientRequests(client, call.op),
                      !.location = RequestLocation(client, call.op, call.lat, call.lon)]

\* A client that requests once more when its request was rejected.
ClientSettleRetry(call, resp) ==
    IF resp.net # "ok" /\ Len(call.urls) < 2
    THEN [call EXCEPT !.urls = @ \o ClientRequests(call.client, call.op)]
    ELSE [call EXCEPT !.pc = "settled", !.resp = resp,
                      !.clientResult = ClientResult(call.client, call.op, call.pageSize, resp)]

\* The client's continuation after axios.get settled.
ClientSettle(call, resp) ==
    [call EXCEPT !.pc = "settled", !.resp = resp,
                 !.clientResult = ClientResult(call.client, call.op, call.pageSize, resp)]

\* A facade that turns to the Open provider when the selected client failed.
FacadeSettleFallback(call) ==
    IF call.pc # "settled" THEN call
    ELSE IF call.clientResult.kind = "error" /\ call.client # OpenStreetMapClient
    THEN Invoke(call, OpenStreetMapClient)
    ELSE [call EXCEPT !.pc = "done", !.result = call.clientResult]

\* return client.<op>(params): the facade's promise takes the client's outcome.
FacadeSettle(call) ==
    IF call.pc # "settled" THEN call
    ELSE [call EXCEPT !.pc = "done", !.result = call.clientResult]

CanCall(i) == modService = "loaded" /\ calls[i].pc \in {"idle", "done"}

searchLocation(i, pageSize) ==
    /\ CanCall(i)
    /\ calls' = [calls EXCEPT ![i] =
            Invoke(Begin("searchLocation", NoNum, NoNum, pageSize),
                   selectProvider(service, NoNum, NoNum))]
    /\ UNCHANGED <<env, modLocation, modService, service, ms, picker, mock, sdk, view, geolocation, editor, search>>

\* searchNearby of a facade that remembers the provider it selected, as the
\* forced mode of the calls that follow.
searchNearbySticky(i, p, pageSize) ==
    /\ CanCall(i)
    /\ LET client == selectProvider(service, Num(p.lat), Num(p.lon))
       IN  /\ calls' = [calls EXCEPT ![i] =
                  Invoke(Begin("searchNearby", Num(p.lat), Num(p.lon), pageSize), client)]
           /\ service' = [service EXCEPT !.config.provider =
                  IF client = AmapClient THEN AMAP
                  ELSE IF client = GoogleMapsClient THEN GOOGLE ELSE OPENSTREETMAP]
    /\ UNCHANGED <<env, modLocation, modService, ms, picker, mock, sdk, view, geolocation, editor, search>>

searchNearby(i, p, pageSize) ==
    /\ CanCall(i)
    /\ calls' = [calls EXCEPT ![i] =
            Invoke(Begin("searchNearby", Num(p.lat), Num(p.lon), pageSize),
                   selectProvider(service, Num(p.lat), Num(p.lon)))]
    /\ UNCHANGED <<env, modLocation, modService, service, ms, picker, mock, sdk, view, geolocation, editor, search>>

\* reverseGeocode of a facade that turns to the Open provider while another
\* call is waiting for the provider it selected.
reverseGeocodeLeastBusy(i, p) ==
    /\ CanCall(i)
    /\ LET client == selectProvider(service, Num(p.lat), Num(p.lon))
           busy == \E j \in DOMAIN calls :
                      j # i /\ calls[j].pc = "awaiting" /\ calls[j].client = client
       IN  calls' = [calls EXCEPT ![i] =
              Invoke(Begin("reverseGeocode", Num(p.lat), Num(p.lon), DefaultPageSize),
                     IF busy THEN service.osmClient ELSE client)]
    /\ UNCHANGED <<env, modLocation, modService, service, ms, picker, mock, sdk, view, geolocation, editor, search>>

reverseGeocode(i, p) ==
    /\ CanCall(i)
    /\ calls' = [calls EXCEPT ![i] =
            Invoke(Begin("reverseGeocode", Num(p.lat), Num(p.lon), DefaultPageSize),
                   selectProvider(service, Num(p.lat), Num(p.lon)))]
    /\ UNCHANGED <<env, modLocation, modService, service, ms, picker, mock, sdk, view, geolocation, editor, search>>

\* axios.get of a provider client settles and the call runs to its end.
ProviderResponse(i) ==
    /\ calls[i].pc = "awaiting"
    /\ calls[i].op \in FacadeOps
    /\ \E resp \in Responses(calls[i].client, calls[i].op) :
         calls' = [calls EXCEPT ![i] = FacadeSettle(ClientSettle(calls[i], resp))]
    /\ UNCHANGED <<env, modLocation, modService, service, ms, picker, mock, sdk, view, geolocation, editor, search>>

---------------------------------------------------------------------------
(* LocationService.getIPLocation *)

DefaultLocation == LocationInfo(<<"default_location">>, "Default", Undef, Undef, Num(0), Num(0))

\* data.latitude || 0
OrZero(x) == IF x = NoNum THEN Num(0) ELSE x

\* getIPLocation with a catch block that throws, as AmapClient.getIPLocation
\* of server/lib/location.ts does.
getIPLocationSettleRethrow(svc, call, resp) ==
    IF resp.net # "ok" \/ resp.body.shape = "null"
    THEN [call EXCEPT !.pc = "done", !.resp = resp,
                      !.result = Rejected("Failed to get IP location")]
    ELSE [call EXCEPT !.pc = "done", !.resp = resp,
                      !.client = selectProvider(svc, resp.body.lat, resp.body.lon),
                      !.result = Location(LocationInfo(<<"ip_location">>,
                          IF resp.body.shape = "geo" THEN "city" ELSE "Unknown",
                          Undef, Undef, OrZero(resp.body.lat), OrZero(resp.body.lon)))]

\* The continuation of getIPLocation after axios.get settled: a rejection and
\* a TypeError on a null body both land in the catch block.
getIPLocationSettle(svc, call, resp) ==
    IF resp.net # "ok" \/ resp.body.shape = "null"
    THEN [call EXCEPT !.pc = "done", !.resp = resp, !.result = Location(DefaultLocation)]
    ELSE [call EXCEPT !.pc = "done", !.resp = resp,
                      !.client = selectProvider(svc, resp.body.lat, resp.body.lon),
                      !.result = Location(LocationInfo(<<"ip_location">>,
                          IF resp.body.shape = "geo" THEN "city" ELSE "Unknown",
                          Undef, Undef, OrZero(resp.body.lat), OrZero(resp.body.lon)))]

getIPLocation(i) ==
    /\ CanCall(i)
    /\ calls' = [calls EXCEPT ![i] =
            [Begin("getIPLocation", NoNum, NoNum, DefaultPageSize)
                EXCEPT !.pc = "awaiting", !.urls = <<"ipapi.co/json">>]]
    /\ UNCHANGED <<env, modLocation, modService, service, ms, picker, mock, sdk, view, geolocation, editor, search>>

IpapiResponse(i) ==
    /\ calls[i].pc = "awaiting"
    /\ calls[i].op = "getIPLocation"
    /\ \E resp \in Responses(Undef, "getIPLocation") :
         calls' = [calls EXCEPT ![i] = getIPLocationSettle(service, calls[i], resp)]
    /\ UNCHANGED <<env, modLocation, modService, service, ms, picker, mock, sdk, view, geolocation, editor, search>>

---------------------------------------------------------------------------
(* Loading the server's location modules *)

\* server/lib/location.ts: const AMAP_API_KEY = process.env.AMAP_WEB_API_KEY || ''
AMAP_API_KEY(e) == Or(e.AMAP_WEB_API_KEY, "")

\* new AmapClient(apiKey) of server/lib/location.ts: "ok", or "threw" when
\* the constructor throws 'Amap API Key is required'.
LocationAmapClient(e, apiKey) ==
    IF Truthy(Or(apiKey, AMAP_API_KEY(e))) THEN "ok" ELSE "threw"

\* import of server/lib/location.ts: export const amapClient = new AmapClient()
LoadLocation ==
    /\ modLocation = "unloaded"
    /\ modLocation' = IF LocationAmapClient(env, Undef) = "ok" THEN "loaded" ELSE "threw"
    /\ UNCHANGED <<env, modService, service, calls, ms, picker, mock, sdk, view, geolocation, editor, search>>

\* import of server/lib/locationService.ts:
\* export const locationService = new LocationService()
LoadLocationService ==
    /\ modService = "unloaded"
    /\ modService' = "loaded"
    /\ service' = LocationService(env, NoOverride)
    /\ UNCHANGED <<env, modLocation, calls, ms, picker, mock, sdk, view, geolocation, editor, search>>

---------------------------------------------------------------------------
(* Front end: MapService configuration and map provider selection *)

\* The variables start.sh writes to window.__BLINKO_CONFIG__: its default
\* list, or a list naming every variable MapService reads.
DefaultInjectVars ==
    {"VITE_AMAP_WEB_API_KEY", "NEXT_PUBLIC_AMAP_WEB_API_KEY", "AMAP_WEB_API_KEY"}
InjectVarSets ==
    { DefaultInjectVars,
      DefaultInjectVars \cup {"MAP_PROVIDER", "GOOGLE_MAPS_API_KEY", "VITE_GOOGLE_MAPS_API_KEY"} }

\* start.sh: a variable is written only when it is listed and non-empty.
BlinkoConfig(e, inject) ==
    [v \in DOMAIN e |-> IF v \in inject /\ Truthy(e[v]) THEN e[v] ELSE Undef]

\* What api.config.getAmapKey.query() settles with: a key, or a rejection.
KeyResults == {"<rejected>", "", "amap-key"}

\* The Amap key getMapConfig finds in window.__BLINKO_CONFIG__.
WindowAmapKey(w) ==
    Or(Or(w.VITE_AMAP_WEB_API_KEY, w.NEXT_PUBLIC_AMAP_WEB_API_KEY), w.AMAP_WEB_API_KEY)

\* getMapConfig of MapService.ts; keyResult is only read when the window
\* configuration holds no Amap key.
getMapServiceConfig(w, keyResult) ==
    LET fromWindow == WindowAmapKey(w)
        amapApiKey == IF Truthy(fromWindow) THEN fromWindow
                      ELSE IF keyResult = "<rejected>" THEN fromWindow
                      ELSE keyResult
        providerStr == Or(w.MAP_PROVIDER, AUTO)
    IN  [ provider |-> IF providerStr \in MapProvider THEN providerStr ELSE AUTO,
          amapApiKey |-> Or(amapApiKey, Undef),
          googleApiKey |-> Or(w.VITE_GOOGLE_MAPS_API_KEY, w.GOOGLE_MAPS_API_KEY) ]

\* MapService.selectMapProvider; hasConfig is this.config !== null.
selectMapProvider(hasConfig, config, latitude, longitude) ==
    IF ~hasConfig THEN OPENSTREETMAP
    ELSE IF config.provider = AMAP /\ Truthy(config.amapApiKey) THEN AMAP
    ELSE IF config.provider = GOOGLE /\ Truthy(config.googleApiKey) THEN GOOGLE
    ELSE IF config.provider = OPENSTREETMAP THEN OPENSTREETMAP
    ELSE IF latitude # NoNum /\ longitude # NoNum
            /\ isInsideChina(latitude[1], longitude[1]) /\ Truthy(config.amapApiKey)
         THEN AMAP
    ELSE IF latitude # NoNum /\ longitude # NoNum /\ Truthy(config.googleApiKey)
         THEN GOOGLE
    ELSE OPENSTREETMAP

\* configured: whether this.config was set when selectMapProvider ran.
NoSelection ==
    [made |-> FALSE, configured |-> FALSE, lat |-> NoNum, lon |-> NoNum, provider |-> Undef]

EnvVars ==
    {"MAP_PROVIDER", "AMAP_WEB_API_KEY", "VITE_AMAP_WEB_API_KEY",
     "NEXT_PUBLIC_AMAP_WEB_API_KEY", "GOOGLE_MAPS_API_KEY", "VITE_GOOGLE_MAPS_API_KEY"}
NoWindow == [v \in EnvVars |-> Undef]

\* pc: "idle", or "getAmapKey" while initConfig awaits the backend's key;
\* window: the configuration read by the pending initConfig;
\* selected: the last call of selectMapProvider and what it returned.
NewMapService ==
    [hasConfig |-> FALSE, config |-> NoConfig, pc |-> "idle",
     window |-> NoWindow,
     selected |-> NoSelection]

\* mapService.initConfig(): sets the configuration at once when the window
\* holds an Amap key, and otherwise suspends at the backend query.
MsInitConfig(inject) ==
    /\ ms.pc = "idle"
    /\ ~ms.hasConfig
    /\ LET w == BlinkoConfig(env, inject)
       IN  IF Truthy(WindowAmapKey(w))
           THEN ms' = [ms EXCEPT !.hasConfig = TRUE,
                                 !.config = getMapServiceConfig(w, "<rejected>")]
           ELSE ms' = [ms EXCEPT !.pc = "getAmapKey", !.window = w]
    /\ UNCHANGED <<env, modLocation, modService, service, calls, picker, mock, sdk, view, geolocation, editor, search>>

\* api.config.getAmapKey.query() settles and initConfig stores the configuration.
MsAmapKeyResult(keyResult) ==
    /\ ms.pc = "getAmapKey"
    /\ ms' = [ms EXCEPT !.pc = "idle", !.hasConfig = TRUE,
                        !.config = getMapServiceConfig(ms.window, keyResult),
                        !.window = NoWindow]
    /\ UNCHANGED <<env, modLocation, modService, service, calls, picker, mock, sdk, view, geolocation, editor, search>>

\* mapService.selectMapProvider(latitude, longitude)
MsSelectMapProvider(latitude, longitude) ==
    /\ ms' = [ms EXCEPT !.selected =
            [made |-> TRUE, configured |-> ms.hasConfig, lat |-> latitude, lon |-> longitude,
             provider |-> selectMapProvider(ms.hasConfig, ms.config, latitude, longitude)]]
    /\ UNCHANGED <<env, modLocation, modService, service, calls, picker, mock, sdk, view, geolocation, editor, search>>

---------------------------------------------------------------------------
(* LocationPicker: getCurrentLocation *)

\* How a run of getCurrentLocation can go: the permission is denied or the
\* platform has no geolocation, getCurrentPosition rejects, the reverse
\* geocoding request rejects, or the handler reaches its end.
PickerOutcomes == {"denied", "not-supported", "position-error", "geocode-error", "ok"}

\* position: the device's WGS84 fix; gcj: wgs84ToGcj02 of it; requested: the
\* coordinates given to api.notes.reverseGeocode and getNearbyLocations;
\* currentLoc: the coordinates of the entry put first in the list.
NewPicker ==
    [pc |-> "idle", position |-> NoPoint, gcj |-> NoPoint, requested |-> NoPoint,
     currentLoc |-> NoPoint]

getCurrentLocation(outcome, p) ==
    /\ picker' =
         IF outcome \in {"denied", "not-supported", "position-error"}
         THEN [NewPicker EXCEPT !.pc = outcome]
         ELSE LET gcj == wgs84ToGcj02(p.lat, p.lon)
              IN  [pc |-> outcome,
                   position |-> PointOf(p.lat, p.lon),
                   gcj |-> PointOf(gcj.latitude, gcj.longitude),
                   requested |-> PointOf(p.lat, p.lon),
                   currentLoc |-> IF outcome = "ok"
                                  THEN PointOf(gcj.latitude, gcj.longitude)
                                  ELSE NoPoint]
    /\ UNCHANGED <<env, modLocation, modService, service, calls, ms, mock, sdk, view, geolocation, editor, search>>

---------------------------------------------------------------------------
(* MockAmapClient, the stand-in used where no Amap key is configured       *)
(*                                                                         *)
(* The mock's coordinates are integers in units of 1e-6 degree, the        *)
(* precision of its fixtures.  A text is the sequence of its words, and    *)
(* String.includes is the test for a contiguous run of words; the Chinese  *)
(* texts are written in pinyin.                                            *)

\* A coordinate of the picker, in the mock's unit.
Micro(v) == v * 100
MicroPoint(point) ==
    [latitude |-> Micro(point.latitude[1]), longitude |-> Micro(point.longitude[1])]

MOCK_POIS ==
    <<
      [id |-> "B000A7BD6J", name |-> <<"Tiananmen", "Guangchang">>,
       address |-> <<"DongchengQu", "XiChanganJie">>,
       formattedAddress |-> <<"Beijing", "Shi", "DongchengQu", "XiChanganJie", "Tiananmen", "Guangchang">>,
       latitude |-> 39908823, longitude |-> 116397470],
      [id |-> "B000A7S3U4", name |-> <<"Gugong", "Bowuyuan">>,
       address |-> <<"DongchengQu", "JingshanQianjie", "4Hao">>,
       formattedAddress |-> <<"Beijing", "Shi", "DongchengQu", "JingshanQianjie", "4Hao", "Gugong", "Bowuyuan">>,
       latitude |-> 39916345, longitude |-> 116397155],
      [id |-> "B000A7TZ8Q", name |-> <<"Beijing", "Shoudu", "Guoji", "Jichang">>,
       address |-> <<"ShunyiQu", "Shoudu", "Jichang", "Lu">>,
       formattedAddress |-> <<"Beijing", "Shi", "ShunyiQu", "Shoudu", "Jichang", "Lu", "Beijing", "Shoudu", "Guoji", "Jichang">>,
       latitude |-> 40079861, longitude |-> 116603142],
      [id |-> "B000A7UTA5", name |-> <<"Yiheyuan">>,
       address |-> <<"HaidianQu", "Xinjiangongmen", "Lu", "19Hao">>,
       formattedAddress |-> <<"Beijing", "Shi", "HaidianQu", "Xinjiangongmen", "Lu", "19Hao", "Yiheyuan">>,
       latitude |-> 39999911, longitude |-> 116275642],
      [id |-> "B000A7V0X8", name |-> <<"Tiantan", "Gongyuan">>,
       address |-> <<"DongchengQu", "Tiantan", "DongLu", "Jia1Hao">>,
       formattedAddress |-> <<"Beijing", "Shi", "DongchengQu", "Tiantan", "DongLu", "Jia1Hao", "Tiantan", "Gongyuan">>,
       latitude |-> 39882231, longitude |-> 116406617],
      [id |-> "B000A7V5G3", name |-> <<"Beijing", "Daxue">>,
       address |-> <<"HaidianQu", "Yiheyuan", "Lu", "5Hao">>,
       formattedAddress |-> <<"Beijing", "Shi", "HaidianQu", "Yiheyuan", "Lu", "5Hao", "Beijing", "Daxue">>,
       latitude |-> 39992653, longitude |-> 116310502],
      [id |-> "B000A7VBQ0", name |-> <<"Qinghua", "Daxue">>,
       address |-> <<"HaidianQu", "Shuangqing", "Lu", "30Hao">>,
       formattedAddress |-> <<"Beijing", "Shi", "HaidianQu", "Shuangqing", "Lu", "30Hao", "Qinghua", "Daxue">>,
       latitude |-> 39999935, longitude |-> 116326403],
      [id |-> "B000A7W1F5", name |-> <<"Guojia", "Dajuyuan">>,
       address |-> <<"XichengQu", "XiChanganJie", "2Hao">>,
       formattedAddress |-> <<"Beijing", "Shi", "XichengQu", "XiChanganJie", "2Hao", "Guojia", "Dajuyuan">>,
       latitude |-> 39903841, longitude |-> 116392822],
      [id |-> "B000A7W4K7", name |-> <<"Niaochao">>,
       address |-> <<"ChaoyangQu", "Guojia", "Tiyuchang", "NanLu", "1Hao">>,
       formattedAddress |-> <<"Beijing", "Shi", "ChaoyangQu", "Guojia", "Tiyuchang", "NanLu", "1Hao", "Niaochao">>,
       latitude |-> 39992958, longitude |-> 116388494],
      [id |-> "B000A7W8H2", name |-> <<"Shuilifang">>,
       address |-> <<"ChaoyangQu", "Tianchen", "DongLu">>,
       formattedAddress |-> <<"Beijing", "Shi", "ChaoyangQu", "Tianchen", "DongLu", "Kou", "Shuilifang">>,
       latitude |-> 39993039, longitude |-> 116380782],
      [id |-> "B000A7XC4", name |-> <<"Sanlitun">>,
       address |-> <<"ChaoyangQu", "Sanlitun", "Lu">>,
       formattedAddress |-> <<"Beijing", "Shi", "ChaoyangQu", "Sanlitun", "Lu", "Sanlitun">>,
       latitude |-> 39936475, longitude |-> 116455527],
      [id |-> "B000A7XJ3", name |-> <<"Wangfujing">>,
       address |-> <<"DongchengQu", "Wangfujing", "Dajie">>,
       formattedAddress |-> <<"Beijing", "Shi", "DongchengQu", "Wangfujing", "Dajie", "Wangfujing">>,
       latitude |-> 39913889, longitude |-> 116410371],
      [id |-> "B000A7YQ7", name |-> <<"Zhongguancun">>,
       address |-> <<"HaidianQu", "Zhongguancun", "Dajie">>,
       formattedAddress |-> <<"Beijing", "Shi", "HaidianQu", "Zhongguancun", "Dajie", "Zhongguancun">>,
       latitude |-> 39981025, longitude |-> 116315863],
      [id |-> "B000A7ZB5", name |-> <<"CBD", "Zhongyang", "Shangwuqu">>,
       address |-> <<"ChaoyangQu", "Jianwai", "Dajie">>,
       formattedAddress |-> <<"Beijing", "Shi", "ChaoyangQu", "Jianwai", "Dajie", "CBD", "Zhongyang", "Shangwuqu">>,
       latitude |-> 39908529, longitude |-> 116476767],
      [id |-> "B000A8A1K4", name |-> <<"Xidan">>,
       address |-> <<"XichengQu", "Xidan", "Bei", "Dajie">>,
       formattedAddress |-> <<"Beijing", "Shi", "XichengQu", "Xidan", "Bei", "Dajie", "Xidan">>,
       latitude |-> 39909709, longitude |-> 116365384]
    >>

MockDefaultPageSize == 10
FallbackCount == 5

\* text.includes(keyword)
Includes(text, keyword) ==
    \E k \in 0..(Len(text) - Len(keyword)) :
        SubSeq(text, k + 1, k + Len(keyword)) = keyword

\* The keywords asked for: the empty string, words of names and addresses,
\* two words in and out of their order, and a word no fixture has.
MockKeywords ==
    { <<>>, <<"Beijing">>, <<"Daxue">>, <<"Beijing", "Shi">>, <<"DongchengQu">>,
      <<"Tiananmen", "Guangchang">>, <<"Guangchang", "Tiananmen">>, <<"Shanghai">> }

\* params.pageSize: left out, or a number of entries.
MockPageSizes ==
    { NoNum, Num(0), Num(1), Num(FallbackCount + 1), Num(2 * MockDefaultPageSize) }

\* The points asked about: the first fixture's own position, a point as far
\* from the fifth fixture as from the eighth, and the device's points.
AtTiananmen == [latitude |-> 39908823, longitude |-> 116397470]
BetweenTwo == [latitude |-> 39891900, longitude |-> 116396700]
MockQueryPoints ==
    {AtTiananmen, BetweenTwo}
    \cup { [latitude |-> Micro(p.lat), longitude |-> Micro(p.lon)] : p \in DevicePoints }

\* Math.round(R * c) of calculateDistance, in metres, from each point asked
\* about to the fixtures in their order: the source's Haversine expression
\* with R = 6371000 evaluated in IEEE 754 doubles.
GreatCircleMeters ==
    <<39908823, 116397470>> :>
        <<0, 837, 25859, 14506, 3058, 11910, 11804, 681, 9387, 9472, 5828, 1236, 10623, 6764, 2738>> @@
    <<39891900, 116396700>> :>
        <<1883, 2718, 27316, 15835, 1368, 13398, 13425, 1368, 11259, 11328, 7053, 2709, 12071, 7076, 3325>> @@
    <<39904200, 116407400>> :>
        <<991, 1609, 25682, 15473, 2444, 12844, 12688, 1244, 10000, 10136, 5452, 1107, 11570, 5936, 3636>> @@
    <<39905600, 116413600>> :>
        <<1422, 1843, 25223, 15756, 2666, 13074, 12856, 1783, 9947, 10117, 4957, 962, 11822, 5398, 4138>> @@
    <<40712800, -74006000>> :>
        <<10988698, 10987874, 10967417, 10980096, 10991519, 10980489, 10979500, 10989302, 10979539, 10979621, 10984966, 10987988, 10981707, 10987790, 10988979>> @@
    <<31230400, 121473700>> :>
        <<1068152, 1068910, 1077458, 1081901, 1065163, 1079825, 1079929, 1067838, 1076843, 1077148, 1068666, 1068156, 1078466, 1065076, 1069484>> @@
    <<31228500, 121478200>> :>
        <<1068519, 1069277, 1077818, 1082269, 1065530, 1080193, 1080297, 1068206, 1077209, 1077514, 1069031, 1068523, 1078834, 1065441, 1069852>> @@
    <<35000000, 72004000>> :>
        <<3915962, 3915842, 3931272, 3904526, 3917069, 3907566, 3908824, 3915630, 3914167, 3913513, 3920539, 3916993, 3908161, 3922687, 3913232>> @@
    <<34998500, 72008000>> :>
        <<3915685, 3915564, 3930996, 3904249, 3916791, 3907289, 3908547, 3915352, 3913889, 3913235, 3920261, 3916715, 3907884, 3922409, 3912954>> @@
    <<35000000, 72003900>> :>
        <<3915971, 3915851, 3931281, 3904535, 3917078, 3907574, 3908833, 3915639, 3914175, 3913521, 3920548, 3917001, 3908169, 3922696, 3913240>> @@
    <<35000000, 137834700>> :>
        <<1963936, 1964099, 1949873, 1975837, 1962688, 1972775, 1971573, 1964238, 1966229, 1966878, 1959555, 1962942, 1972111, 1957258, 1966653>> @@
    <<34999600, 137839700>> :>
        <<1964374, 1964536, 1950310, 1976274, 1963126, 1973212, 1972010, 1964676, 1966666, 1967315, 1959992, 1963380, 1972549, 1957695, 1967091>> @@
    <<35000000, 137834800>> :>
        <<1963945, 1964107, 1949882, 1975846, 1962697, 1972784, 1971582, 1964246, 1966237, 1966886, 1959563, 1962950, 1972120, 1957266, 1966661>> @@
    <<829300, 105000000>> :>
        <<4496123, 4496911, 4519599, 4502631, 4493545, 4502757, 4503938, 4495475, 4504802, 4504611, 4500562, 4496995, 4501662, 4498159, 4495384>> @@
    <<830100, 105002100>> :>
        <<4495982, 4496770, 4519457, 4502490, 4493404, 4502616, 4503797, 4495334, 4504661, 4504470, 4500421, 4496854, 4501521, 4498018, 4495243>> @@
    <<829200, 105000000>> :>
        <<4496134, 4496922, 4519609, 4502642, 4493556, 4502768, 4503949, 4495485, 4504813, 4504622, 4500573, 4497006, 4501673, 4498170, 4495395>> @@
    <<55827100, 105000000>> :>
        <<1957732, 1956944, 1946578, 1944504, 1960769, 1946342, 1946085, 1958102, 1948751, 1948501, 1956695, 1957612, 1947712, 1960252, 1956637>> @@
    <<55828500, 105005500>> :>
        <<1957695, 1956907, 1946536, 1944468, 1960732, 1946305, 1946048, 1958065, 1948713, 1948463, 1956657, 1957575, 1947676, 1960213, 1956601>> @@
    <<55827200, 105000000>> :>
        <<1957742, 1956954, 1946587, 1944514, 1960779, 1946352, 1946095, 1958112, 1948760, 1948510, 1956705, 1957622, 1947722, 1960261, 1956647>>

FixtureAt(latitude, longitude) ==
    CHOOSE k \in 1..Len(MOCK_POIS) :
        MOCK_POIS[k].latitude = latitude /\ MOCK_POIS[k].longitude = longitude

\* calculateDistance: the text `${Math.round(distance)} 米`, as the number
\* and the unit.
calculateDistance(lat1, lon1, lat2, lon2) ==
    <<GreatCircleMeters[<<lat1, lon1>>][FixtureAt(lat2, lon2)], "m">>

\* parseFloat of such a text: the leading number.
parseFloat(text) == text[1]

\* { ...poi, distance }
WithDistance(poi, distance) ==
    [id |-> poi.id, name |-> poi.name, address |-> poi.address,
     formattedAddress |-> poi.formattedAddress,
     latitude |-> poi.latitude, longitude |-> poi.longitude, distance |-> distance]

\* pois.map(poi => ({ ...poi, distance: this.calculateDistance(latitude,
\* longitude, poi.latitude, poi.longitude) }))
WithDistances(pois, latitude, longitude) ==
    [k \in 1..Len(pois) |->
        WithDistance(pois[k],
            calculateDistance(latitude, longitude, pois[k].latitude, pois[k].longitude))]

\* array.sort((a, b) => parseFloat(a.distance) - parseFloat(b.distance)):
\* ascending, entries of equal distance keeping their order.
RECURSIVE SortByDistance(_)
SortByDistance(items) ==
    IF items = <<>> THEN <<>>
    ELSE LET first == Head(items)
             rest == SortByDistance(Tail(items))
             k == Cardinality({ j \in 1..Len(rest) :
                      parseFloat(rest[j].distance) < parseFloat(first.distance) })
         IN  SubSeq(rest, 1, k) \o <<first>> \o SubSeq(rest, k + 1, Len(rest))

\* pageSize = 10 in the destructuring
PageSizeOf(pageSize) == IF pageSize = NoNum THEN MockDefaultPageSize ELSE pageSize[1]

Matches(poi, keyword) ==
    \/ Includes(poi.name, keyword)
    \/ Includes(poi.address, keyword)
    \/ Includes(poi.formattedAddress, keyword)

\* searchLocation answering with what the filter left.
MockSearchLocationNoFallback(keyword, pageSize) ==
    LET filtered == SelectSeq(MOCK_POIS, LAMBDA poi : Matches(poi, keyword))
    IN  WithDistances(Slice(filtered, PageSizeOf(pageSize)),
                      AtTiananmen.latitude, AtTiananmen.longitude)

\* MockAmapClient.searchLocation, after its delay: the distances are those
\* from the first fixture's position.
MockSearchLocation(keyword, pageSize) ==
    LET filtered == SelectSeq(MOCK_POIS, LAMBDA poi : Matches(poi, keyword))
        results == IF Len(filtered) > 0 THEN filtered ELSE Slice(MOCK_POIS, FallbackCount)
    IN  WithDistances(Slice(results, PageSizeOf(pageSize)),
                      AtTiananmen.latitude, AtTiananmen.longitude)

\* searchNearby without its sort.
MockSearchNearbyUnsorted(latitude, longitude, pageSize) ==
    Slice(WithDistances(MOCK_POIS, latitude, longitude), PageSizeOf(pageSize))

\* MockAmapClient.searchNearby, after its delay.
MockSearchNearby(latitude, longitude, pageSize) ==
    Slice(SortByDistance(WithDistances(MOCK_POIS, latitude, longitude)),
          PageSizeOf(pageSize))

\* The loop of findNearestPOI from fixture k on; nearest is the index of the
\* fixture held so far (0 for null), minDistance is NoNum for Infinity.
RECURSIVE findNearestLoop(_, _, _, _, _)
findNearestLoop(latitude, longitude, k, nearest, minDistance) ==
    IF k > Len(MOCK_POIS) THEN nearest
    ELSE LET dist == parseFloat(calculateDistance(latitude, longitude,
                         MOCK_POIS[k].latitude, MOCK_POIS[k].longitude))
         IN  IF minDistance = NoNum \/ dist < minDistance[1]
             THEN findNearestLoop(latitude, longitude, k + 1, k, Num(dist))
             ELSE findNearestLoop(latitude, longitude, k + 1, nearest, minDistance)

\* findNearestPOI whose loop never lowers minDistance: every fixture is
\* nearer than Infinity and the last one is kept.
findNearestPOIStaleMin(latitude, longitude) == Len(MOCK_POIS)

findNearestPOI(latitude, longitude) == findNearestLoop(latitude, longitude, 1, 0, NoNum)

MockGeocode(address, formattedAddress, poiName, distance) ==
    [address |-> address, formattedAddress |-> formattedAddress,
     province |-> "Beijing Shi", city |-> "Beijing Shi",
     district |-> "DongchengQu", street |-> "unknown street",
     poiName |-> poiName, distance |-> distance]
NoMockGeocode == [MockGeocode(<<>>, <<>>, Undef, Undef) EXCEPT
                    !.province = Undef, !.city = Undef, !.district = Undef, !.street = Undef]

\* MockAmapClient.reverseGeocode, after its delay; the fixtures have neither
\* district nor street, so those two are always the defaults.
MockReverseGeocode(latitude, longitude) ==
    LET nearest == findNearestPOI(latitude, longitude)
    IN  IF nearest = 0
        THEN MockGeocode(<<"unknown place">>, <<"Beijing", "Shi", "unknown place">>,
                         Undef, Undef)
        ELSE MockGeocode(MOCK_POIS[nearest].address, MOCK_POIS[nearest].formattedAddress,
                         MOCK_POIS[nearest].name,
                         calculateDistance(latitude, longitude,
                             MOCK_POIS[nearest].latitude, MOCK_POIS[nearest].longitude))

\* pc: "idle", "delay" (suspended at await this.delay), "done".
NewMock ==
    [pc |-> "idle", op |-> Undef, keyword |-> <<>>, latitude |-> NoNum, longitude |-> NoNum,
     pageSize |-> NoNum, list |-> <<>>, geo |-> NoMockGeocode]

MockClientSearchLocation(keyword, pageSize) ==
    /\ mock.pc # "delay"
    /\ mock' = [NewMock EXCEPT !.pc = "delay", !.op = "searchLocation",
                               !.keyword = keyword, !.pageSize = pageSize]
    /\ UNCHANGED <<env, modLocation, modService, service, calls, ms, picker, sdk, view, geolocation, editor, search>>

MockClientSearchNearby(q, pageSize) ==
    /\ mock.pc # "delay"
    /\ mock' = [NewMock EXCEPT !.pc = "delay", !.op = "searchNearby",
                               !.latitude = Num(q.latitude),
                               !.longitude = Num(q.longitude),
                               !.pageSize = pageSize]
    /\ UNCHANGED <<env, modLocation, modService, service, calls, ms, picker, sdk, view, geolocation, editor, search>>

\* reverseGeocode of one of the points, or of the current location the
\* picker holds (a GCJ02 point).
MockClientReverseGeocode ==
    /\ mock.pc # "delay"
    /\ \E q \in MockQueryPoints
               \cup (IF picker.currentLoc = NoPoint THEN {}
                     ELSE {MicroPoint(picker.currentLoc)}) :
         mock' = [NewMock EXCEPT !.pc = "delay", !.op = "reverseGeocode",
                                 !.latitude = Num(q.latitude),
                                 !.longitude = Num(q.longitude)]
    /\ UNCHANGED <<env, modLocation, modService, service, calls, ms, picker, sdk, view, geolocation, editor, search>>

\* The timer of delay fires and the method runs to its end.
MockClientDelay ==
    /\ mock.pc = "delay"
    /\ mock' =
         IF mock.op = "searchLocation"
         THEN [mock EXCEPT !.pc = "done",
                           !.list = MockSearchLocation(mock.keyword, mock.pageSize)]
         ELSE IF mock.op = "searchNearby"
         THEN [mock EXCEPT !.pc = "done",
                           !.list = MockSearchNearby(mock.latitude[1], mock.longitude[1],
                                                     mock.pageSize)]
         ELSE [mock EXCEPT !.pc = "done",
                           !.geo = MockReverseGeocode(mock.latitude[1], mock.longitude[1])]
    /\ UNCHANGED <<env, modLocation, modService, service, calls, ms, picker, sdk, view, geolocation, editor, search>>

---------------------------------------------------------------------------
(* The map SDK loaders: AmapLoader, GoogleMapsLoader, LeafletLoader        *)

MaxLoads == 2         \* load calls that can be in flight at once
Loads == 1..MaxLoads

Sdks == {AMAP, GOOGLE, OPENSTREETMAP}

\* The loaders that ask the document for a script element that is already
\* there (querySelector of data-amap / data-google); LeafletLoader does not.
LooksForExisting == {AMAP, GOOGLE}

\* One SDK in the browser.  global: window.AMap, window.google.maps or
\* window.L is defined; scripts: the script elements of this SDK put in the
\* document; script: "none", "loading", "loaded" or "failed";
\* scriptPromise: the loader's static field, "null", "pending", "fulfilled"
\* or "rejected"; cssLoaded: LeafletLoader.cssLoaded.
NoSdk ==
    [global |-> FALSE, scripts |-> 0, script |-> "none",
     scriptPromise |-> "null", cssLoaded |-> FALSE]

\* One call of load.  pc: "idle", "awaiting" (the call returned
\* scriptPromise, which has not settled), "resolved" or "rejected";
\* value: what the call resolved to, "sdk" for the SDK object;
\* loaded: whether the script's load event had fired when it resolved.
NoLoad == [pc |-> "idle", provider |-> Undef, value |-> Undef, loaded |-> FALSE]

NewSdk == [of |-> [k \in Sdks |-> NoSdk], loads |-> [i \in Loads |-> NoLoad]]

\* The promise executor of load: a script element is appended unless the
\* loader finds one already in the document.
InjectScript(s, k) ==
    IF k \in LooksForExisting /\ s.scripts > 0
    THEN [s EXCEPT !.scriptPromise = "pending"]
    ELSE [s EXCEPT !.scriptPromise = "pending", !.scripts = @ + 1, !.script = "loading",
                   !.cssLoaded = IF k = OPENSTREETMAP THEN TRUE ELSE @]

\* A loader that does not remember its scriptPromise and does not look for
\* an existing element.
LoaderLoadUnmemoized(s, i, k) ==
    IF s.of[k].global
    THEN [s EXCEPT !.loads[i] =
             [pc |-> "resolved", provider |-> k, value |-> "sdk", loaded |-> TRUE]]
    ELSE [s EXCEPT
             !.of[k] = [@ EXCEPT !.scriptPromise = "pending", !.scripts = @ + 1,
                                 !.script = "loading"],
             !.loads[i] = [pc |-> "resolved", provider |-> k, value |-> Undef,
                           loaded |-> FALSE]]

\* AmapLoader.load, GoogleMapsLoader.load, LeafletLoader.load, in the browser:
\* the loaders and calls s after call i has run to its return, which it does
\* without a suspension.  The global is returned when defined; else a
\* scriptPromise that exists is returned, and the call settles with it; else
\* the promise is created and the global is read at once: undefined for
\* window.AMap and window.L, a TypeError for window.google.maps while
\* window.google is undefined.
LoaderLoad(s, i, k) ==
    IF s.of[k].global
    THEN [s EXCEPT !.loads[i] =
             [pc |-> "resolved", provider |-> k, value |-> "sdk", loaded |-> TRUE]]
    ELSE IF s.of[k].scriptPromise # "null"
    THEN [s EXCEPT !.loads[i] =
             [pc |-> "awaiting", provider |-> k, value |-> Undef, loaded |-> FALSE]]
    ELSE [s EXCEPT
             !.of[k] = InjectScript(@, k),
             !.loads[i] = IF k = GOOGLE
                          THEN [pc |-> "rejected", provider |-> k,
                                value |-> "TypeError", loaded |-> FALSE]
                          ELSE [pc |-> "resolved", provider |-> k,
                                value |-> Undef, loaded |-> FALSE]]

\* A call of load made on its own.
load(i, k) ==
    /\ sdk.loads[i].pc # "awaiting"
    /\ sdk' = LoaderLoad(sdk, i, k)
    /\ UNCHANGED <<env, modLocation, modService, service, calls, ms, picker, mock, view, geolocation, editor, search>>

\* How a call that returned scriptPromise settles: as the promise did, and a
\* Promise<void> fulfils with undefined.
Settled(s, i) ==
    LET of == s.of[s.loads[i].provider]
    IN  [s EXCEPT !.loads[i] =
            IF of.scriptPromise = "fulfilled"
            THEN [@ EXCEPT !.pc = "resolved", !.value = Undef, !.loaded = of.global]
            ELSE [@ EXCEPT !.pc = "rejected", !.value = "load error"]]

\* A call that returned scriptPromise settles.
LoadSettle(i) ==
    /\ sdk.loads[i].pc = "awaiting"
    /\ sdk.of[sdk.loads[i].provider].scriptPromise \in {"fulfilled", "rejected"}
    /\ sdk' = Settled(sdk, i)
    /\ UNCHANGED <<env, modLocation, modService, service, calls, ms, picker, mock, view, geolocation, editor, search>>

\* The script element's load event: the SDK has defined its global, and
\* onload (or the listener added to an existing element) resolves.
ScriptLoad(k) ==
    /\ sdk.of[k].script = "loading"
    /\ sdk' = [sdk EXCEPT !.of[k] =
           [@ EXCEPT !.script = "loaded", !.global = TRUE,
                     !.scriptPromise = IF @ = "pending" THEN "fulfilled" ELSE @]]
    /\ UNCHANGED <<env, modLocation, modService, service, calls, ms, picker, mock, view, geolocation, editor, search>>

\* The script element's error event.
ScriptError(k) ==
    /\ sdk.of[k].script = "loading"
    /\ sdk' = [sdk EXCEPT !.of[k] =
           [@ EXCEPT !.script = "failed",
                     !.scriptPromise = IF @ = "pending" THEN "rejected" ELSE @]]
    /\ UNCHANGED <<env, modLocation, modService, service, calls, ms, picker, mock, view, geolocation, editor, search>>

\* The LocationPicker's own loadAmap: it throws without a key, and appends
\* the Amap script unless window.AMap or a data-amap element is there.
loadAmap(amapKey) ==
    /\ ~sdk.of[AMAP].global
    /\ Truthy(amapKey)
    /\ sdk.of[AMAP].scripts = 0
    /\ sdk' = [sdk EXCEPT !.of[AMAP] = [@ EXCEPT !.scripts = @ + 1, !.script = "loading"]]
    /\ UNCHANGED <<env, modLocation, modService, service, calls, ms, picker, mock, view, geolocation, editor, search>>

---------------------------------------------------------------------------
(* MapService: the map's life cycle, driven by the LocationPicker's effect *)

\* One run of the picker's map effect.  active: the effect is mounted (its
\* cleanup has not run, disposed is false); pc: "idle", "initConfig" (the
\* effect awaits mapService.initConfig()), "loading" (initMap awaits a
\* loader call that returned scriptPromise), "timer" (initAmap's 200 ms
\* wait), "done" or "failed"; at: the centre given to initMap; value: what
\* the loader call resolved to.
NoRun == [pc |-> "idle", active |-> FALSE, at |-> Undef, provider |-> Undef, value |-> Undef]

NoDispatch == [op |-> Undef, api |-> Undef, on |-> Undef]

\* currentMap and currentMarker name the provider whose SDK created the
\* object; dispatched: the last setCenter, updateMarker or onClick that
\* reached the map, the provider whose API it used and the map it used it
\* on; cleanedUp: some cleanup of the effect has run.
NewView ==
    [currentMap |-> Undef, currentMarker |-> Undef, mapType |-> OPENSTREETMAP,
     dispatched |-> NoDispatch, cleanedUp |-> FALSE,
     runs |-> [i \in Loads |-> NoRun]]

\* new AMap.Map / new googleMaps.Map / L.map and the marker, on what the
\* loader call resolved to: a TypeError when that is undefined.
Construct(v, i, k, value) ==
    IF value = "sdk"
    THEN [v EXCEPT !.currentMap = k, !.currentMarker = k,
                   !.runs[i] = [@ EXCEPT !.pc = "done", !.value = value]]
    ELSE [v EXCEPT !.runs[i] = [@ EXCEPT !.pc = "failed", !.value = value]]

\* initMap continues after a loader call has settled: initAmap waits 200 ms
\* before it constructs, the others construct at once.
AfterLoad(v, s, i, k) ==
    IF s.loads[i].pc = "rejected"
    THEN [v EXCEPT !.runs[i] = [@ EXCEPT !.pc = "failed"]]
    ELSE IF k = AMAP
    THEN [v EXCEPT !.runs[i] = [@ EXCEPT !.pc = "timer", !.value = s.loads[i].value]]
    ELSE Construct(v, i, k, s.loads[i].value)

\* mapService.initMap(container, p.lat, p.lon) with the configuration set:
\* the provider is selected and stored in mapType, then initAmap,
\* initGoogleMaps or initLeaflet checks its key and calls its loader.  The
\* result is the view and the loaders at initMap's first suspension that
\* waits for an event.
initMap(v, s, i, p) ==
    LET provider == selectMapProvider(ms.hasConfig, ms.config, Num(p.lat), Num(p.lon))
        v1 == [v EXCEPT !.mapType = provider, !.runs[i] = [@ EXCEPT !.provider = provider]]
        keyMissing == \/ provider = AMAP /\ ~Truthy(ms.config.amapApiKey)
                      \/ provider = GOOGLE /\ ~Truthy(ms.config.googleApiKey)
        s1 == LoaderLoad(s, i, provider)
    IN  IF keyMissing
        THEN [view |-> [v1 EXCEPT !.runs[i] = [@ EXCEPT !.pc = "failed"]], sdk |-> s]
        ELSE IF s1.loads[i].pc = "awaiting"
        THEN [view |-> [v1 EXCEPT !.runs[i] = [@ EXCEPT !.pc = "loading"]], sdk |-> s1]
        ELSE [view |-> AfterLoad(v1, s1, i, provider), sdk |-> s1]

\* The picker's map effect runs (the picker opens): the cleanup of every
\* earlier run has run.  It awaits mapService.initConfig() and calls initMap.
EffectRun(i, p) ==
    /\ \A j \in Loads : ~view.runs[j].active
    /\ view.runs[i].pc \in {"idle", "done", "failed"}
    /\ LET v == [view EXCEPT !.runs[i] = [NoRun EXCEPT !.active = TRUE, !.at = p]]
       IN  IF ms.hasConfig
           THEN LET r == initMap(v, sdk, i, p)
                IN  view' = r.view /\ sdk' = r.sdk
           ELSE /\ view' = [v EXCEPT !.runs[i] = [@ EXCEPT !.pc = "initConfig"]]
                /\ sdk' = sdk
    /\ UNCHANGED <<env, modLocation, modService, service, calls, ms, picker, mock, geolocation, editor, search>>

\* mapService.initConfig() has resolved for a waiting effect.  The effect
\* returns when mapContainerRef.current is gone, which it can be once the
\* picker has closed; otherwise it calls initMap.
ConfigReady(i, mounted) ==
    /\ view.runs[i].pc = "initConfig"
    /\ ms.hasConfig
    /\ mounted \/ ~view.runs[i].active
    /\ IF mounted
       THEN LET r == initMap(view, sdk, i, view.runs[i].at)
            IN  view' = r.view /\ sdk' = r.sdk
       ELSE /\ view' = [view EXCEPT !.runs[i] = [@ EXCEPT !.pc = "done"]]
            /\ sdk' = sdk
    /\ UNCHANGED <<env, modLocation, modService, service, calls, ms, picker, mock, geolocation, editor, search>>

\* The scriptPromise an initMap awaits has settled.
LoaderSettled(i) ==
    /\ view.runs[i].pc = "loading"
    /\ sdk.of[view.runs[i].provider].scriptPromise \in {"fulfilled", "rejected"}
    /\ LET s1 == Settled(sdk, i)
       IN  /\ sdk' = s1
           /\ view' = AfterLoad(view, s1, i, view.runs[i].provider)
    /\ UNCHANGED <<env, modLocation, modService, service, calls, ms, picker, mock, geolocation, editor, search>>

\* initAmap's 200 ms wait is over: the map is constructed on the value the
\* loader call resolved to before the wait.
AmapTimer(i) ==
    /\ view.runs[i].pc = "timer"
    /\ view' = Construct(view, i, AMAP, view.runs[i].value)
    /\ UNCHANGED <<env, modLocation, modService, service, calls, ms, picker, mock, sdk, geolocation, editor, search>>

\* mapService.destroy()
destroy(v) ==
    IF v.currentMap = Undef THEN v
    ELSE [v EXCEPT !.currentMap = Undef, !.currentMarker = Undef]

\* The effect's cleanup (the picker closes): disposed = true, then
\* mapService.destroy().
Cleanup(i) ==
    /\ view.runs[i].active
    /\ view' = destroy([view EXCEPT !.runs[i] = [@ EXCEPT !.active = FALSE],
                                    !.cleanedUp = TRUE])
    /\ UNCHANGED <<env, modLocation, modService, service, calls, ms, picker, mock, sdk, geolocation, editor, search>>

\* mapService.setCenter, updateMarker, onClick: each returns when there is
\* no map (updateMarker also when there is no marker) and otherwise calls
\* the API of the provider in mapType on currentMap or currentMarker.
MapOps == {"setCenter", "updateMarker", "onClick"}
MapCall(op) ==
    /\ view.currentMap # Undef
    /\ op = "updateMarker" => view.currentMarker # Undef
    /\ view' = [view EXCEPT !.dispatched =
           [op |-> op, api |-> view.mapType,
            on |-> IF op = "updateMarker" THEN view.currentMarker ELSE view.currentMap]]
    /\ UNCHANGED <<env, modLocation, modService, service, calls, ms, picker, mock, sdk, geolocation, editor, search>>

---------------------------------------------------------------------------
(* BlinkoEditor: editorLocations and the automatic location fetch          *)

MaxFetches == 2       \* getCurrentPosition requests of the editor in flight at once

\* "自动获取", the address, formatted address and POI name of the automatic entry.
AutoAddress == "zidong huoqu"

\* The entry fetchAutoLocation builds from a device position.
AutoLocation(p) ==
    LET gcj == wgs84ToGcj02(p.lat, p.lon)
    IN  [address |-> AutoAddress, latitude |-> gcj.latitude, longitude |-> gcj.longitude]

\* Entries the user picks in the LocationPicker, and the lists the picker
\* hands to onAddLocations.
Picked(p) == [address |-> "picked", latitude |-> p.lat, longitude |-> p.lon]
PickedPoints == {Beijing, Shanghai, NewYork}
PickedLists ==
    {<<>>} \cup { <<Picked(p)>> : p \in PickedPoints }
           \cup { <<Picked(p), Picked(q)>> : p \in PickedPoints, q \in PickedPoints }

\* mode: undefined before the editor is mounted; timer: the effect's 500 ms
\* timer is pending; fetching: fetchAutoLocation runs awaiting the position;
\* isLocationPickerOpen: the editor shows the LocationPicker.
NewEditor ==
    [mode |-> Undef, locations |-> <<>>, timer |-> FALSE, fetching |-> 0,
     isLocationPickerOpen |-> FALSE]

\* The effect with dependencies [mode, editorLocations.length]: its cleanup
\* clears the timer and, in create mode with no locations, it sets a new one.
AutoLocationEffect(e) ==
    [e EXCEPT !.timer = (e.mode = "create" /\ Len(e.locations) = 0)]

\* setEditorLocations(locations) and the render after it: the effect runs
\* again only when the length has changed.
setEditorLocations(e, locations) ==
    LET e1 == [e EXCEPT !.locations = locations]
    IN  IF Len(locations) = Len(e.locations) THEN e1 ELSE AutoLocationEffect(e1)

\* The editor is mounted; in edit mode the note's saved locations are loaded.
EditorMount(mode, saved) ==
    /\ editor.mode = Undef
    /\ editor' = IF mode = "create"
                 THEN AutoLocationEffect([editor EXCEPT !.mode = mode])
                 ELSE setEditorLocations([editor EXCEPT !.mode = mode], saved)
    /\ UNCHANGED <<env, modLocation, modService, service, calls, ms, picker, mock, sdk, view, geolocation, search>>

\* The 500 ms timer fires: fetchAutoLocation starts and awaits
\* geolocationService.getCurrentPosition().
AutoLocationTimer ==
    /\ editor.timer
    /\ editor.fetching < MaxFetches
    /\ editor' = [editor EXCEPT !.timer = FALSE, !.fetching = @ + 1]
    /\ UNCHANGED <<env, modLocation, modService, service, calls, ms, picker, mock, sdk, view, geolocation, search>>

\* getCurrentPosition resolves: setEditorLocations([autoLocation]).
fetchAutoLocationResolved(p) ==
    /\ editor.fetching > 0
    /\ editor' = setEditorLocations([editor EXCEPT !.fetching = @ - 1], <<AutoLocation(p)>>)
    /\ UNCHANGED <<env, modLocation, modService, service, calls, ms, picker, mock, sdk, view, geolocation, search>>

\* getCurrentPosition rejects: the error is logged.
fetchAutoLocationRejected ==
    /\ editor.fetching > 0
    /\ editor' = [editor EXCEPT !.fetching = @ - 1]
    /\ UNCHANGED <<env, modLocation, modService, service, calls, ms, picker, mock, sdk, view, geolocation, search>>

\* handleLocationButtonPress: the picker opens.
handleLocationButtonPress ==
    /\ editor.mode # Undef
    /\ ~editor.isLocationPickerOpen
    /\ editor' = [editor EXCEPT !.isLocationPickerOpen = TRUE]
    /\ UNCHANGED <<env, modLocation, modService, service, calls, ms, picker, mock, sdk, view, geolocation, search>>

\* The picker's handleClose: onClose.
handleClose ==
    /\ editor.isLocationPickerOpen
    /\ editor' = [editor EXCEPT !.isLocationPickerOpen = FALSE]
    /\ UNCHANGED <<env, modLocation, modService, service, calls, ms, picker, mock, sdk, view, geolocation, search>>

\* The picker's handleConfirm: onAddLocations(locations), then handleClose.
onAddLocations(locations) ==
    /\ editor.isLocationPickerOpen
    /\ editor' = [setEditorLocations(editor, locations) EXCEPT !.isLocationPickerOpen = FALSE]
    /\ UNCHANGED <<env, modLocation, modService, service, calls, ms, picker, mock, sdk, view, geolocation, search>>

\* The note has been sent: setEditorLocations([]).
EditorSent ==
    /\ editor.mode # Undef
    /\ editor.locations # <<>>
    /\ editor' = setEditorLocations(editor, <<>>)
    /\ UNCHANGED <<env, modLocation, modService, service, calls, ms, picker, mock, sdk, view, geolocation, search>>

---------------------------------------------------------------------------
(* GeolocationService on the web platform                                  *)

MaxWatches == 3       \* watches the browser registers in one run

\* The callbacks given to watchPosition.
Callbacks == {"onPosition1", "onPosition2"}

\* What navigator.geolocation.getCurrentPosition does with a permission
\* request: the success callback, an error with code PERMISSION_DENIED, or
\* another error (position unavailable, timeout).
PositionAnswers == {"success", "PERMISSION_DENIED", "other-error"}

\* One call of requestPermission or checkPermission.  pc: "idle",
\* "requesting" (the browser has been asked) or "returned"; requested: what
\* requestPermission resolved to; returned: what the call resolved to.
NoPermissionCall == [pc |-> "idle", op |-> Undef, requested |-> Undef, returned |-> Undef]

\* supported: isSupported(), 'geolocation' in navigator; watchId and
\* positionCallback: the service's fields (<<>> is null); watches: the
\* watches registered with the browser and not cleared, each with the
\* callback its success handler calls; nextId: the id the browser gives to
\* the next watch; delivered: the last position report, the watch it came
\* from and the callback it reached.
NewGeolocationService ==
    [supported |-> TRUE, watchId |-> <<>>, positionCallback |-> Undef,
     watches |-> <<>>, nextId |-> 1,
     delivered |-> [id |-> 0, callback |-> Undef],
     permission |-> NoPermissionCall]

WatchIds(g) == { n \in 1..Len(g.watches) : g.watches[n] # Undef }

\* GeolocationService.watchPosition(callback): the browser registers a new
\* watch, whose id replaces watchId.
watchPosition(g, callback) ==
    IF ~g.supported THEN g
    ELSE [g EXCEPT !.positionCallback = callback,
                   !.watchId = <<g.nextId>>,
                   !.watches = Append(@, callback),
                   !.nextId = @ + 1]

\* GeolocationService.clearWatch()
clearWatch(g) ==
    IF g.watchId # <<>>
    THEN [g EXCEPT !.watches[g.watchId[1]] = Undef, !.watchId = <<>>,
                   !.positionCallback = Undef]
    ELSE [g EXCEPT !.positionCallback = Undef]

\* requestWebPermission's promise: it resolves for every answer.
requestWebPermission(answer) ==
    CASE answer = "success" -> "granted"
      [] answer = "PERMISSION_DENIED" -> "denied"
      [] OTHER -> "prompt"

\* checkPermission on the web: 'granted' when requestPermission resolved,
\* 'denied' when it rejected.
checkPermission(requested, rejected) ==
    IF rejected THEN "denied" ELSE "granted"

WatchPosition(callback) ==
    /\ geolocation.nextId <= MaxWatches
    /\ geolocation' = watchPosition(geolocation, callback)
    /\ UNCHANGED <<env, modLocation, modService, service, calls, ms, picker, mock, sdk, view, editor, search>>

ClearWatch ==
    /\ geolocation' = clearWatch(geolocation)
    /\ UNCHANGED <<env, modLocation, modService, service, calls, ms, picker, mock, sdk, view, editor, search>>

\* The browser reports a position to a registered watch.
WatchReport(id) ==
    /\ id \in WatchIds(geolocation)
    /\ geolocation' = [geolocation EXCEPT
           !.delivered = [id |-> id, callback |-> geolocation.watches[id]]]
    /\ UNCHANGED <<env, modLocation, modService, service, calls, ms, picker, mock, sdk, view, editor, search>>

\* requestPermission() or checkPermission() is called.  Without geolocation
\* requestPermission resolves to 'not-supported' at once.
PermissionCall(op) ==
    /\ geolocation.permission.pc # "requesting"
    /\ geolocation' = [geolocation EXCEPT !.permission =
           IF geolocation.supported
           THEN [pc |-> "requesting", op |-> op, requested |-> Undef, returned |-> Undef]
           ELSE [pc |-> "returned", op |-> op, requested |-> "not-supported",
                 returned |-> IF op = "checkPermission"
                              THEN checkPermission("not-supported", FALSE)
                              ELSE "not-supported"]]
    /\ UNCHANGED <<env, modLocation, modService, service, calls, ms, picker, mock, sdk, view, editor, search>>

\* The browser answers the permission request.
PermissionAnswer(answer) ==
    /\ geolocation.permission.pc = "requesting"
    /\ LET requested == requestWebPermission(answer)
       IN  geolocation' = [geolocation EXCEPT !.permission =
               [@ EXCEPT !.pc = "returned", !.requested = requested,
                         !.returned = IF geolocation.permission.op = "checkPermission"
                                      THEN checkPermission(requested, FALSE)
                                      ELSE requested]]
    /\ UNCHANGED <<env, modLocation, modService, service, calls, ms, picker, mock, sdk, view, editor, search>>

---------------------------------------------------------------------------
(* LocationPicker: the keyword search                                       *)

MaxSearches == 2      \* searchLocation requests of the picker in flight at once
Searches == 1..MaxSearches

\* The page size the picker asks for.
SearchPageSize == 10

\* What the user types: words, and " " for white space around them.
TypedKeywords ==
    { <<>>, <<" ">>, <<"Daxue">>, <<"Tiananmen", "Guangchang">>, <<" ", "Shanghai">> }

\* String.prototype.trim
RECURSIVE trim(_)
trim(value) ==
    IF value = <<>> THEN value
    ELSE IF Head(value) = " " THEN trim(Tail(value))
    ELSE IF value[Len(value)] = " " THEN trim(SubSeq(value, 1, Len(value) - 1))
    ELSE value

\* What api.notes.searchLocation resolves to for a keyword, where the
\* server answers from the mock client.
SearchResponse(keyword) == MockSearchLocation(keyword, Num(SearchPageSize))

NoRequest == [pc |-> "idle", keyword |-> <<>>]

\* searchKeyword: the input's value; debounced: the call the debounce holds
\* back (<<>> none, <<value>> the latest value); requests: the requests in
\* flight; searchResults, isLoading: the component's state; failed: a
\* request has been rejected.
NewSearch ==
    [searchKeyword |-> <<>>, debounced |-> <<>>,
     requests |-> [i \in Searches |-> NoRequest],
     searchResults |-> <<>>, isLoading |-> FALSE, failed |-> FALSE]

\* The continuation of searchLocations after its request resolves:
\* setSearchResults(results), then setIsLoading(false).
SearchResolved(s, i) ==
    [s EXCEPT !.requests[i] = NoRequest, !.isLoading = FALSE,
              !.searchResults = SearchResponse(s.requests[i].keyword)]

\* handleSearchChange(value): the debounce keeps the latest value.
handleSearchChange(value) ==
    /\ search' = [search EXCEPT !.searchKeyword = value, !.debounced = <<value>>]
    /\ UNCHANGED <<env, modLocation, modService, service, calls, ms, picker, mock, sdk, view, geolocation, editor>>

\* 300 ms have passed since the last change: searchLocations runs with the
\* held value.  A blank keyword empties the results; any other is sent.
SearchDebounceFires(i) ==
    /\ search.debounced # <<>>
    /\ LET keyword == search.debounced[1]
       IN  IF trim(keyword) = <<>>
           THEN search' = [search EXCEPT !.debounced = <<>>, !.searchResults = <<>>]
           ELSE /\ search.requests[i].pc = "idle"
                /\ \A j \in Searches : j < i => search.requests[j].pc # "idle"
                /\ search' = [search EXCEPT
                       !.debounced = <<>>, !.isLoading = TRUE,
                       !.requests[i] = [pc |-> "sent", keyword |-> trim(keyword)]]
    /\ UNCHANGED <<env, modLocation, modService, service, calls, ms, picker, mock, sdk, view, geolocation, editor>>

\* A request resolves, in any order.
SearchResponseArrives(i) ==
    /\ search.requests[i].pc = "sent"
    /\ search' = SearchResolved(search, i)
    /\ UNCHANGED <<env, modLocation, modService, service, calls, ms, picker, mock, sdk, view, geolocation, editor>>

\* A request rejects: a toast, then setIsLoading(false).
SearchRejected(i) ==
    /\ search.requests[i].pc = "sent"
    /\ search' = [search EXCEPT !.requests[i] = NoRequest, !.isLoading = FALSE,
                                !.failed = TRUE]
    /\ UNCHANGED <<env, modLocation, modService, service, calls, ms, picker, mock, sdk, view, geolocation, editor>>


---------------------------------------------------------------------------
(* The system *)

Init ==
    /\ env \in Envs
    /\ modLocation = "unloaded"
    /\ modService = "unloaded"
    /\ service = NoService
    /\ calls = [i \in Slots |-> IdleCall]
    /\ ms = NewMapService
    /\ picker = NewPicker
    /\ mock = NewMock
    /\ sdk = NewSdk
    /\ view = NewView
    /\ geolocation = NewGeolocationService
    /\ editor = NewEditor
    /\ search = NewSearch

\* The server process.
Next ==
    \/ LoadLocation
    \/ LoadLocationService
    \/ \E i \in Callers, n \in PageSizes : searchLocation(i, n)
    \/ \E i \in Callers, p \in Points, n \in PageSizes : searchNearby(i, p, n)
    \/ \E i \in Callers, p \in Points : reverseGeocode(i, p)
    \/ \E i \in Callers : getIPLocation(i)
    \/ \E i \in Callers : ProviderResponse(i)
    \/ \E i \in Callers : IpapiResponse(i)

\* The browser.
NextMap ==
    \/ \E inject \in InjectVarSets : MsInitConfig(inject)
    \/ \E keyResult \in KeyResults : MsAmapKeyResult(keyResult)
    \/ MsSelectMapProvider(NoNum, NoNum)
    \/ \E p \in Points : MsSelectMapProvider(Num(p.lat), Num(p.lon))

NextAll == Next \/ NextMap

\* The server process answering concurrent calls.
InitConcurrent == Init /\ env \in ConcurrentEnvs
NextConcurrent ==
    \/ LoadLocationService
    \/ \E i \in Slots : searchLocation(i, DefaultPageSize)
    \/ \E i \in Slots, p \in Points : searchNearby(i, p, DefaultPageSize)
    \/ \E i \in Slots, p \in Points : reverseGeocode(i, p)
    \/ \E i \in Slots : getIPLocation(i)
    \/ \E i \in Slots : ProviderResponse(i)
    \/ \E i \in Slots : IpapiResponse(i)

\* The device and the mock client, which stands in where no key is configured.
InitDevice ==
    /\ Init
    /\ env = [MAP_PROVIDER |-> Undef, AMAP_WEB_API_KEY |-> Undef,
              VITE_AMAP_WEB_API_KEY |-> Undef, NEXT_PUBLIC_AMAP_WEB_API_KEY |-> Undef,
              GOOGLE_MAPS_API_KEY |-> Undef, VITE_GOOGLE_MAPS_API_KEY |-> Undef]
NextDevice ==
    \/ \E outcome \in PickerOutcomes, p \in DevicePoints : getCurrentLocation(outcome, p)
    \/ \E keyword \in MockKeywords, n \in MockPageSizes : MockClientSearchLocation(keyword, n)
    \/ \E q \in MockQueryPoints, n \in MockPageSizes : MockClientSearchNearby(q, n)
    \/ MockClientReverseGeocode
    \/ MockClientDelay

\* The browser loading the map SDKs.
NextSdk ==
    \/ \E i \in Loads, k \in Sdks : load(i, k)
    \/ \E i \in Loads : LoadSettle(i)
    \/ \E k \in Sdks : ScriptLoad(k)
    \/ \E k \in Sdks : ScriptError(k)
    \/ \E amapKey \in {"", "amap-key"} : loadAmap(amapKey)

\* The browser showing the picker's map.
ViewEnv ==
    [MAP_PROVIDER |-> Undef, AMAP_WEB_API_KEY |-> Undef,
     VITE_AMAP_WEB_API_KEY |-> Undef, NEXT_PUBLIC_AMAP_WEB_API_KEY |-> Undef,
     GOOGLE_MAPS_API_KEY |-> "google-key", VITE_GOOGLE_MAPS_API_KEY |-> Undef]
InitView == Init /\ env = ViewEnv
NextView ==
    \/ \E inject \in InjectVarSets : MsInitConfig(inject)
    \/ \E keyResult \in KeyResults : MsAmapKeyResult(keyResult)
    \/ \E i \in Loads, p \in Points : EffectRun(i, p)
    \/ \E i \in Loads, mounted \in BOOLEAN : ConfigReady(i, mounted)
    \/ \E i \in Loads : LoaderSettled(i)
    \/ \E i \in Loads : AmapTimer(i)
    \/ \E i \in Loads : Cleanup(i)
    \/ \E op \in MapOps : MapCall(op)
    \/ \E k \in Sdks : ScriptLoad(k)
    \/ \E k \in Sdks : ScriptError(k)

\* The browser choosing a map provider and converting device positions, in
\* deployments with a Google key, with and without an Amap key in the
\* window, automatic or with the China provider forced.
FrontEnvs ==
    { e \in Envs : /\ e.MAP_PROVIDER \in {Undef, AMAP}
                   /\ e.AMAP_WEB_API_KEY \in {Undef, "amap-key"}
                   /\ e.GOOGLE_MAPS_API_KEY = "google-key" }
InitFront == Init /\ env \in FrontEnvs
NextFront ==
    \/ \E inject \in InjectVarSets : MsInitConfig(inject)
    \/ \E keyResult \in KeyResults : MsAmapKeyResult(keyResult)
    \/ \E p \in DevicePoints : MsSelectMapProvider(Num(p.lat), Num(p.lon))
    \/ \E p \in DevicePoints : getCurrentLocation("ok", p)

\* The editor.
NextEditor ==
    \/ \E mode \in {"create", "edit"}, saved \in PickedLists : EditorMount(mode, saved)
    \/ AutoLocationTimer
    \/ \E p \in DevicePoints : fetchAutoLocationResolved(p)
    \/ fetchAutoLocationRejected
    \/ handleLocationButtonPress
    \/ handleClose
    \/ \E locations \in PickedLists : onAddLocations(locations)
    \/ EditorSent

\* The GeolocationService in a browser with or without navigator.geolocation.
InitGeolocation ==
    /\ env = ViewEnv
    /\ modLocation = "unloaded"
    /\ modService = "unloaded"
    /\ service = NoService
    /\ calls = [i \in Slots |-> IdleCall]
    /\ ms = NewMapService
    /\ picker = NewPicker
    /\ mock = NewMock
    /\ sdk = NewSdk
    /\ view = NewView
    /\ geolocation \in { [NewGeolocationService EXCEPT !.supported = b] : b \in BOOLEAN }
    /\ editor = NewEditor
    /\ search = NewSearch
NextGeolocation ==
    \/ \E callback \in Callbacks : WatchPosition(callback)
    \/ ClearWatch
    \/ \E id \in 1..MaxWatches : WatchReport(id)
    \/ \E op \in {"requestPermission", "checkPermission"} : PermissionCall(op)
    \/ \E answer \in PositionAnswers : PermissionAnswer(answer)

\* The picker's search box.
NextSearch ==
    \/ \E value \in TypedKeywords : handleSearchChange(value)
    \/ \E i \in Searches : SearchDebounceFires(i)
    \/ \E i \in Searches : SearchResponseArrives(i)
    \/ \E i \in Searches : SearchRejected(i)

Spec == Init /\ [][Next]_vars
SpecMap == Init /\ [][NextMap]_vars
SpecAll == Init /\ [][NextAll]_vars
SpecConcurrent == InitConcurrent /\ [][NextConcurrent]_vars
SpecDevice == InitDevice /\ [][NextDevice]_vars
SpecSdk == InitDevice /\ [][NextSdk]_vars
SpecView == InitView /\ [][NextView]_vars
SpecFront == InitFront /\ [][NextFront]_vars
SpecEditor == InitDevice /\ [][NextEditor]_vars
SpecGeolocation == InitGeolocation /\ [][NextGeolocation]_vars
SpecSearch == InitDevice /\ [][NextSearch]_vars

---------------------------------------------------------------------------
(* Properties *)

HasChinaKey == Truthy(service.config.amapApiKey)
HasGlobalKey == Truthy(service.config.googleApiKey)

\* The calls of selectProvider visible in the state: the coordinates it was
\* given and the client it returned.  A facade call selects when it starts;
\* getIPLocation selects once it has read the body of the response.
Selections ==
    { [lat |-> calls[i].lat, lon |-> calls[i].lon, client |-> calls[i].client] :
        i \in { j \in Callers : calls[j].op \in FacadeOps /\ calls[j].pc # "idle" } }
    \cup
    { [lat |-> calls[i].resp.body.lat, lon |-> calls[i].resp.body.lon,
       client |-> calls[i].client] :
        i \in { j \in Callers : /\ calls[j].op = "getIPLocation"
                                /\ calls[j].pc = "done"
                                /\ calls[j].resp.net = "ok"
                                /\ calls[j].resp.body.shape # "null" } }

HasCoords(s) == s.lat # NoNum /\ s.lon # NoNum
Inside(s) == HasCoords(s) /\ isInsideChina(s.lat[1], s.lon[1])
Outside(s) == HasCoords(s) /\ ~isInsideChina(s.lat[1], s.lon[1])

\* The three-step precedence of the selector, as the specification words it.
Precedence(mode, chinaKey, globalKey, coords, inChina) ==
    IF mode = AMAP /\ chinaKey THEN AmapClient
    ELSE IF mode = GOOGLE /\ globalKey THEN GoogleMapsClient
    ELSE IF mode = OPENSTREETMAP THEN OpenStreetMapClient
    ELSE IF mode = AUTO /\ coords /\ inChina /\ chinaKey THEN AmapClient
    ELSE IF mode = AUTO /\ coords /\ globalKey THEN GoogleMapsClient
    ELSE IF globalKey THEN GoogleMapsClient
    ELSE IF chinaKey THEN AmapClient
    ELSE OpenStreetMapClient

C2_ForcedWithoutKeyNeverSelected ==
    \A s \in Selections :
        /\ (service.config.provider = AMAP /\ ~HasChinaKey) => s.client # AmapClient
        /\ (service.config.provider = GOOGLE /\ ~HasGlobalKey) => s.client # GoogleMapsClient

\* Force-China without a China key, asked about a point inside China while
\* the Global key is present.
C2_Witness ==
    \E s \in Selections :
        /\ service.config.provider = AMAP /\ ~HasChinaKey /\ HasGlobalKey
        /\ Inside(s)
        /\ s.client = GoogleMapsClient

\* C3: selectProvider always returns a client the service constructed, and
\* when neither the China nor the Global key is present it returns the Open
\* client.
C3_SelectionNeverFailsForLackOfKey ==
    \A s \in Selections :
        /\ s.client # Undef
        /\ s.client \in {service.amapClient, service.googleClient, service.osmClient}
        /\ (~HasChinaKey /\ ~HasGlobalKey) => s.client = OpenStreetMapClient

\* A forced China mode with no key at all was answered by the Open client.
C3_Witness ==
    \E s \in Selections :
        /\ service.config.provider = AMAP /\ ~HasChinaKey /\ ~HasGlobalKey
        /\ s.client = OpenStreetMapClient

\* C4: getIPLocation never raises: whatever the IP-geolocation request
\* settles with, the call ends with a LocationInfo, and when the request
\* failed that LocationInfo has latitude 0 and longitude 0.
C4_GetIPLocationNeverRaises ==
    \A i \in Callers :
        (calls[i].op = "getIPLocation" /\ calls[i].pc = "done") =>
            /\ calls[i].result.kind = "location"
            /\ calls[i].resp.net # "ok" =>
                 /\ calls[i].result.loc.latitude = Num(0)
                 /\ calls[i].result.loc.longitude = Num(0)

\* A getIPLocation call whose request timed out has ended.
C4_Witness ==
    \E i \in Callers :
        /\ calls[i].op = "getIPLocation" /\ calls[i].pc = "done"
        /\ calls[i].resp.net = "timeout"

\* C5: a facade call of searchLocation, searchNearby or reverseGeocode invokes
\* the selected client and no other, issues no further request, and ends with
\* exactly what that client ended with, its error included.
C5_OneProviderAnswers ==
    \A i \in Callers :
        (calls[i].op \in FacadeOps /\ calls[i].pc # "idle") =>
            /\ calls[i].client = selectProvider(service, calls[i].lat, calls[i].lon)
            /\ calls[i].invoked = <<calls[i].client>>
            /\ Len(calls[i].urls) = 1
            /\ calls[i].pc = "done" =>
                 /\ calls[i].clientResult.kind # "none"
                 /\ calls[i].result = calls[i].clientResult

\* A facade call ended with the error of a key-requiring client while the
\* Open client stood by.
C5_Witness ==
    \E i \in Callers :
        /\ calls[i].op \in FacadeOps /\ calls[i].pc = "done"
        /\ calls[i].client # OpenStreetMapClient
        /\ calls[i].result.kind = "error"

\* C6: every operation of a provider client issues exactly one HTTP request
\* per invocation, whether the request succeeds, is answered with a
\* non-success status or fails in transport.
C6_OneRequestPerOperation ==
    \A i \in Callers :
        (calls[i].op \in FacadeOps /\ calls[i].pc \in {"awaiting", "done"}) =>
            /\ Len(calls[i].invoked) = 1
            /\ calls[i].urls = ClientRequests(calls[i].client, calls[i].op)
            /\ Len(calls[i].urls) = 1

\* An operation whose request failed in transport has ended.
C6_Witness ==
    \E i \in Callers :
        /\ calls[i].op \in FacadeOps /\ calls[i].pc = "done"
        /\ calls[i].resp.net = "network"

\* The response tells a non-success status.
NonSuccess(client, body) ==
    \/ client = AmapClient /\ body.status # "1"
    \/ client = GoogleMapsClient /\ body.status # "OK"
    \/ client = OpenStreetMapClient /\ body.shape = "error"

\* C7: when the provider's response tells a non-success status (China:
\* status # "1", Global: status # "OK", Open: an error body), the operation
\* fails with an error and returns no value.
C7_NonSuccessStatusFails ==
    \A i \in Callers :
        ( /\ calls[i].op \in FacadeOps /\ calls[i].pc = "done"
          /\ calls[i].resp.net = "ok"
          /\ NonSuccess(calls[i].client, calls[i].resp.body) ) =>
            /\ calls[i].clientResult.kind = "error"
            /\ calls[i].clientResult.items = <<>>
            /\ calls[i].clientResult.geo = NoGeocode

\* The Open client, which checks no status, was answered with an error body
\* and its reverseGeocode has ended.
C7_Witness ==
    \E i \in Callers :
        /\ calls[i].op = "reverseGeocode" /\ calls[i].pc = "done"
        /\ calls[i].resp.net = "ok"
        /\ calls[i].client = OpenStreetMapClient
        /\ NonSuccess(calls[i].client, calls[i].resp.body)

\* C8: no missing API key raises an error at startup: constructing the
\* location service and loading the server's location modules completes
\* without throwing, whichever keys are unset.
C8_StartupNeverThrows ==
    modLocation # "threw" /\ modService # "threw"

\* C9: in auto mode, for a position outside China the selected map service
\* is Google Maps when a Google key is configured and OpenStreetMap otherwise
\* (never Amap), and for a position inside China with an Amap key it is Amap;
\* for the server's selector and for the front end's.
C9_AutoSelectionAsDocumented ==
    /\ \A s \in Selections :
            service.config.provider = AUTO =>
                /\ Outside(s) => s.client = IF HasGlobalKey THEN GoogleMapsClient
                                            ELSE OpenStreetMapClient
                /\ (Inside(s) /\ HasChinaKey) => s.client = AmapClient
    /\ (ms.selected.made /\ ms.selected.configured /\ ms.config.provider = AUTO) =>
            /\ Outside(ms.selected) =>
                 ms.selected.provider = IF Truthy(ms.config.googleApiKey) THEN GOOGLE
                                        ELSE OPENSTREETMAP
            /\ (Inside(ms.selected) /\ Truthy(ms.config.amapApiKey)) =>
                 ms.selected.provider = AMAP

\* C10: when the Open client answers searchNearby it returns at most one
\* result, for every point and page size, and a returned result has type
\* "current".
C10_OpenNearbyAtMostOne ==
    \A i \in Callers :
        ( /\ calls[i].op = "searchNearby" /\ calls[i].pc = "done"
          /\ calls[i].client = OpenStreetMapClient ) =>
            /\ Len(calls[i].result.items) <= 1
            /\ \A k \in 1..Len(calls[i].result.items) :
                 calls[i].result.items[k].type = "current"

\* The Open client answered a searchNearby asking for ten results.
C10_Witness ==
    \E i \in Callers :
        /\ calls[i].op = "searchNearby" /\ calls[i].pc = "done"
        /\ calls[i].client = OpenStreetMapClient
        /\ calls[i].pageSize = DefaultPageSize
        /\ calls[i].result.kind = "list"
        /\ Len(calls[i].result.items) = 1

\* The reverse geocoding calls the China client has answered from a
\* regeocode.
RegeoCalls ==
    { i \in Callers : /\ calls[i].op = "reverseGeocode"
                      /\ calls[i].client = AmapClient
                      /\ calls[i].pc = "done"
                      /\ calls[i].resp.net = "ok"
                      /\ calls[i].resp.body.status = "1"
                      /\ calls[i].resp.body.regeo }

\* The name and the address the priority asks for, of a body with the given
\* numbers of aois and pois; the name of a poi may carry its distance.
PoiNamesByPriority(aois, pois) ==
    IF aois > 0 THEN {"aoi1"}
    ELSE IF pois > 0 THEN {"poi1", "poi1 nearby m"}
    ELSE {Undef}
AddressByPriority(aois, pois) ==
    IF aois > 0 THEN <<"district", "aoi1", "township", "streetNumber">>
    ELSE IF pois > 0 THEN <<"district", "poi1", "streetNumber">>
    ELSE <<"district", "streetNumber">>

\* C11: the China provider's reverseGeocode takes poiName from the first
\* area of interest when the response has one, whatever the pois; else from
\* the first poi (its distance possibly appended); else leaves it undefined
\* and builds the address from the administrative components alone.  Both
\* AmapClient classes are held to it, on every regeocode a call received.
C11_PoiNamePriority ==
    \A i \in RegeoCalls :
        LET body == calls[i].resp.body
            geos == { calls[i].result.geo, LocationAmapReverseGeocode(body).geo }
        IN  /\ calls[i].result.kind = "geocode"
            /\ LocationAmapReverseGeocode(body).kind = "geocode"
            /\ \A g \in geos :
                  /\ g.poiName \in PoiNamesByPriority(body.aois, body.n)
                  /\ g.address = AddressByPriority(body.aois, body.n)

\* A regeocode with an area of interest and a poi was answered with the
\* area's name.
C11_Witness ==
    \E i \in RegeoCalls :
        /\ calls[i].resp.body.aois > 0
        /\ calls[i].resp.body.n > 0
        /\ calls[i].result.geo.poiName = "aoi1"

\* The runs of getCurrentLocation that converted a position.
Converted == picker.position # NoPoint

\* C12: wgs84ToGcj02 returns its input unchanged, latitude and longitude,
\* for every point with lon < 72.004 or lon > 137.8347 or lat < 0.8293 or
\* lat > 55.8271.
C12_IdentityOutsideBox ==
    Converted =>
        LET lat == picker.position.latitude[1]
            lon == picker.position.longitude[1]
        IN  (lon < 720040 \/ lon > 1378347 \/ lat < 8293 \/ lat > 558271)
                => picker.gcj = picker.position

\* A position 1e-4 degree west of the box came back unchanged.
C12_Witness ==
    /\ Converted
    /\ picker.position = PointOf(BeyondWest.lat, BeyondWest.lon)
    /\ picker.gcj = picker.position

\* The requests that carry coordinates.
CoordinateCalls ==
    { i \in Callers : /\ calls[i].op \in {"searchNearby", "reverseGeocode"}
                      /\ calls[i].invoked # <<>> }

\* C13: the coordinates of a searchNearby or reverseGeocode request to the
\* China provider are wgs84ToGcj02 of the coordinates the caller gave, and
\* the coordinates of a request to the Global or the Open provider are the
\* caller's coordinates unchanged.
C13_ChinaRequestsCarryGcj02 ==
    \A i \in CoordinateCalls :
        LET gcj == wgs84ToGcj02(calls[i].lat[1], calls[i].lon[1])
        IN  IF calls[i].client = AmapClient
            THEN calls[i].location = PointOf(gcj.latitude, gcj.longitude)
            ELSE calls[i].location =
                    [latitude |-> calls[i].lat, longitude |-> calls[i].lon]

\* A key is configured when one of its environment variables holds a
\* non-empty string.
ChinaKeyConfigured ==
    \/ Truthy(env.AMAP_WEB_API_KEY)
    \/ Truthy(env.VITE_AMAP_WEB_API_KEY)
    \/ Truthy(env.NEXT_PUBLIC_AMAP_WEB_API_KEY)
GlobalKeyConfigured ==
    Truthy(env.GOOGLE_MAPS_API_KEY) \/ Truthy(env.VITE_GOOGLE_MAPS_API_KEY)

\* C14: from its construction on, in every state, the facade holds a China
\* client exactly when a China key is configured, a Global client exactly
\* when a Global key is configured, and one Open client.
C14_ClientsMatchKeys ==
    modService = "loaded" =>
        /\ service.amapClient \in {AmapClient, Undef}
        /\ service.googleClient \in {GoogleMapsClient, Undef}
        /\ (service.amapClient = AmapClient) <=> ChinaKeyConfigured
        /\ (service.googleClient = GoogleMapsClient) <=> GlobalKeyConfigured
        /\ service.osmClient = OpenStreetMapClient

\* A facade built with the China key alone, after it has answered a call.
C14_Witness ==
    /\ modService = "loaded"
    /\ ChinaKeyConfigured /\ ~GlobalKeyConfigured
    /\ service.amapClient = AmapClient /\ service.googleClient = Undef
    /\ \E i \in Callers : calls[i].pc = "done" /\ calls[i].invoked # <<>>

\* The selection slot i's call made: the coordinates selectProvider was given
\* and the client it returned.
SelectionOf(i) ==
    IF calls[i].op \in FacadeOps /\ calls[i].pc # "idle"
    THEN [made |-> TRUE, lat |-> calls[i].lat, lon |-> calls[i].lon,
          client |-> calls[i].client]
    ELSE IF /\ calls[i].op = "getIPLocation" /\ calls[i].pc = "done"
            /\ calls[i].resp.net = "ok" /\ calls[i].resp.body.shape # "null"
    THEN [made |-> TRUE, lat |-> calls[i].resp.body.lat, lon |-> calls[i].resp.body.lon,
          client |-> calls[i].client]
    ELSE [made |-> FALSE, lat |-> NoNum, lon |-> NoNum, client |-> Undef]

\* C15: no step of any interleaving of searchLocation, searchNearby,
\* reverseGeocode and getIPLocation calls changes the configuration or the
\* clients of the constructed service, and the provider selected for a call
\* is the one the configuration read at construction gives for that call's
\* own coordinates, whatever the other calls are doing or have done.
C15_NoSharedMutableState ==
    /\ [][modService = "loaded" => service' = service]_vars
    /\ [](\A i \in Slots :
            SelectionOf(i).made =>
                SelectionOf(i).client =
                    selectProvider(LocationService(env, NoOverride),
                                   SelectionOf(i).lat, SelectionOf(i).lon))

\* Two calls in flight at once that were given different providers.
C15_Witness ==
    \E i, j \in Slots :
        /\ calls[i].pc = "awaiting" /\ calls[j].pc = "awaiting"
        /\ calls[i].client = AmapClient /\ calls[j].client = GoogleMapsClient

\* C16: selectProvider is deterministic: any two selections made under the
\* same configuration with the same coordinates returned the same provider,
\* whatever calls were made between them.
C16_SelectionDeterministic ==
    \A i, j \in Slots :
        (/\ SelectionOf(i).made /\ SelectionOf(j).made
         /\ SelectionOf(i).lat = SelectionOf(j).lat
         /\ SelectionOf(i).lon = SelectionOf(j).lon)
            => SelectionOf(i).client = SelectionOf(j).client

\* A finished call and a later call still in flight, of different operations
\* and for the same point, with the same provider.
C16_Witness ==
    \E i, j \in Slots :
        /\ i # j
        /\ calls[i].pc = "done" /\ calls[i].op = "searchNearby"
        /\ calls[j].pc = "awaiting" /\ calls[j].op = "reverseGeocode"
        /\ SelectionOf(i).lat = SelectionOf(j).lat
        /\ SelectionOf(i).lon = SelectionOf(j).lon
        /\ SelectionOf(i).lat # NoNum
        /\ SelectionOf(i).client = SelectionOf(j).client

\* The mock's answered calls.
MockAnswered(op) == mock.pc = "done" /\ mock.op = op

\* The fixtures one of whose name, address and formatted address holds the
\* keyword.
MatchingFixtures(keyword) ==
    { k \in 1..Len(MOCK_POIS) :
        \/ Includes(MOCK_POIS[k].name, keyword)
        \/ Includes(MOCK_POIS[k].address, keyword)
        \/ Includes(MOCK_POIS[k].formattedAddress, keyword) }

\* What searchLocation owes for the keyword it was given: a non-empty list,
\* of matching fixtures only when some fixture matches, and otherwise the
\* fixtures from the first one on.
SearchLocationGuarantee ==
    /\ Len(mock.list) > 0
    /\ IF MatchingFixtures(mock.keyword) # {}
       THEN \A j \in 1..Len(mock.list) :
                \E k \in MatchingFixtures(mock.keyword) : mock.list[j].id = MOCK_POIS[k].id
       ELSE /\ Len(mock.list) <= Len(MOCK_POIS)
            /\ \A j \in 1..Len(mock.list) : mock.list[j].id = MOCK_POIS[j].id

\* C17 as stated: the mock's searchLocation returns a non-empty list for
\* every keyword and every page size, of matching fixtures only when the
\* keyword occurs in some fixture and of the first fixtures otherwise.
C17_NonEmptyForEveryPageSize ==
    MockAnswered("searchLocation") => SearchLocationGuarantee

\* C17, amended: the same for every keyword and every page size of at least
\* one, the page size left out included; a page size of 0 is answered with
\* the empty list.
C17_NonEmptyForPositivePageSize ==
    MockAnswered("searchLocation") =>
        IF PageSizeOf(mock.pageSize) >= 1
        THEN SearchLocationGuarantee /\ Len(mock.list) <= PageSizeOf(mock.pageSize)
        ELSE mock.list = <<>>

\* A keyword no fixture has, answered with the first five fixtures.
C17_Witness ==
    /\ MockAnswered("searchLocation")
    /\ mock.keyword = <<"Shanghai">>
    /\ mock.pageSize = Num(FallbackCount + 1)
    /\ Len(mock.list) = FallbackCount
    /\ mock.list[1].id = MOCK_POIS[1].id

\* The distance of the mock's j-th entry, and the one the source computes
\* from the point asked about to fixture k.
EntryMeters(j) == parseFloat(mock.list[j].distance)
FixtureMeters(k) == GreatCircleMeters[<<mock.latitude[1], mock.longitude[1]>>][k]

\* C18: the mock's searchNearby returns fixtures in non-decreasing order of
\* their computed great-circle distance from the point asked about, at most
\* pageSize of them, and those are the nearest: no fixture left out is
\* nearer than one returned.
C18_NearbySortedAndCut ==
    MockAnswered("searchNearby") =>
        LET n == Len(mock.list)
            returned == { FixtureAt(mock.list[j].latitude, mock.list[j].longitude) : j \in 1..n }
        IN  /\ n <= PageSizeOf(mock.pageSize)
            /\ n = Cardinality(returned)
            /\ \A j \in 1..n :
                  EntryMeters(j) =
                      FixtureMeters(FixtureAt(mock.list[j].latitude, mock.list[j].longitude))
            /\ \A j \in 1..(n - 1) : EntryMeters(j) <= EntryMeters(j + 1)
            /\ \A k \in (1..Len(MOCK_POIS)) \ returned :
                  \A j \in 1..n : EntryMeters(j) <= FixtureMeters(k)

\* Six entries asked for at the point equally far from the fifth and the
\* eighth fixture: the two come first, in the fixtures' order.
C18_Witness ==
    /\ MockAnswered("searchNearby")
    /\ mock.latitude = Num(BetweenTwo.latitude)
    /\ mock.pageSize = Num(FallbackCount + 1)
    /\ Len(mock.list) = FallbackCount + 1
    /\ mock.list[1].id = MOCK_POIS[5].id
    /\ mock.list[2].id = MOCK_POIS[8].id
    /\ EntryMeters(1) = EntryMeters(2)
    /\ EntryMeters(2) < EntryMeters(3)

\* The least computed distance from the point asked about to a fixture.
LeastMeters ==
    CHOOSE d \in { FixtureMeters(k) : k \in 1..Len(MOCK_POIS) } :
        \A k \in 1..Len(MOCK_POIS) : d <= FixtureMeters(k)

\* C19: the mock's reverseGeocode returns, for every point asked about, the
\* address, formattedAddress and name (as poiName) of a fixture whose
\* computed distance to the point is least among all fixtures, and that
\* least distance as its distance.
C19_ReverseGeocodeNearest ==
    MockAnswered("reverseGeocode") =>
        /\ \E k \in 1..Len(MOCK_POIS) :
              /\ FixtureMeters(k) = LeastMeters
              /\ mock.geo.address = MOCK_POIS[k].address
              /\ mock.geo.formattedAddress = MOCK_POIS[k].formattedAddress
              /\ mock.geo.poiName = MOCK_POIS[k].name
        /\ mock.geo.distance # Undef
        /\ parseFloat(mock.geo.distance) = LeastMeters

\* Asked about the point equally far from the fifth and the eighth fixture,
\* the mock answered with the fifth.
C19_Witness ==
    /\ MockAnswered("reverseGeocode")
    /\ mock.latitude = Num(BetweenTwo.latitude)
    /\ mock.longitude = Num(BetweenTwo.longitude)
    /\ FixtureMeters(5) = LeastMeters /\ FixtureMeters(8) = LeastMeters
    /\ mock.geo.poiName = MOCK_POIS[5].name

\* The province-level region of the device's points inside China.
RegionOf(position) ==
    IF position = PointOf(Beijing.lat, Beijing.lon) THEN "Beijing Shi"
    ELSE IF position = PointOf(Shanghai.lat, Shanghai.lon) THEN "Shanghai Shi"
    ELSE Undef

\* C20: when the mock has reverse geocoded the wgs84ToGcj02 output of a
\* WGS84 point inside China, the province of its result is the region of
\* that point, in whichever region of China the point lies.
C20_RoundTripProvince ==
    (/\ MockAnswered("reverseGeocode")
     /\ RegionOf(picker.position) # Undef
     /\ picker.gcj # picker.position
     /\ mock.latitude = Num(Micro(picker.gcj.latitude[1]))
     /\ mock.longitude = Num(Micro(picker.gcj.longitude[1])))
        => mock.geo.province = RegionOf(picker.position)

\* C21: across every interleaving of load calls, for each provider at most
\* one script element of its SDK is ever put in the document.
C21_AtMostOneScript ==
    \A k \in Sdks : sdk.of[k].scripts <= 1

\* Two load calls for one provider have been made while its script was loading.
C21_Witness ==
    \E k \in Sdks :
        /\ sdk.of[k].scripts = 1
        /\ \A i \in Loads : sdk.loads[i].provider = k /\ sdk.loads[i].pc # "idle"
        /\ \E i \in Loads : sdk.loads[i].pc = "awaiting"

\* C22: a load call that resolves resolves to the provider's SDK object, and
\* not before the script's load event has fired.
C22_ResolvesToLoadedSdk ==
    \A i \in Loads :
        sdk.loads[i].pc = "resolved" => sdk.loads[i].value = "sdk" /\ sdk.loads[i].loaded

\* The point of the last provider selection, and of the last conversion.
SelectedAt == [lat |-> ms.selected.lat[1], lon |-> ms.selected.lon[1]]
ConvertedAt == [lat |-> picker.position.latitude[1], lon |-> picker.position.longitude[1]]
OffsetApplied ==
    picker.gcj = PointOf(ConvertedAt.lat + dLat(ConvertedAt.lat, ConvertedAt.lon),
                         ConvertedAt.lon + dLng(ConvertedAt.lat, ConvertedAt.lon))

UserChosen ==
    /\ editor.locations # <<>>
    /\ \A n \in 1..Len(editor.locations) : editor.locations[n].address # AutoAddress
AutoFetched ==
    /\ editor.locations # <<>>
    /\ editor.locations[1].address = AutoAddress

\* C25: in create mode, once onAddLocations has set editorLocations to a
\* non-empty list, no step replaces it with the automatically fetched
\* location.
C25_AutoFetchNeverReplacesChosen ==
    [][(editor.mode = "create" /\ UserChosen) => ~AutoFetched']_vars

\* C26: once the picker's cleanup has run and every initMap that was in
\* flight has finished, the MapService holds no map and no marker.
C26_NoMapAfterCleanup ==
    (/\ view.cleanedUp
     /\ \A i \in Loads : ~view.runs[i].active /\ view.runs[i].pc \in {"idle", "done", "failed"})
    => view.currentMap = Undef /\ view.currentMarker = Undef

\* C27: whenever the MapService holds a map, mapType is the provider whose
\* SDK created that map.
C27_MapTypeMatchesMap ==
    view.currentMap # Undef => view.mapType = view.currentMap

\* C28: on the web, checkPermission returns 'granted' only if the permission
\* request resulted in 'granted', and returns 'denied' when the user denied
\* the request.
C28_CheckPermissionReflectsRequest ==
    LET call == geolocation.permission
    IN  (call.op = "checkPermission" /\ call.pc = "returned") =>
            /\ call.returned = "granted" => call.requested = "granted"
            /\ call.requested = "denied" => call.returned = "denied"

\* C29: every watch registered with the browser and not cleared is the one
\* recorded in watchId, so that at most one is active and none is once
\* clearWatch has returned.
C29_AtMostTheRecordedWatch ==
    \A id \in WatchIds(geolocation) : geolocation.watchId = <<id>>

\* No call is held back by the debounce and no request is in flight.
SearchQuiet ==
    /\ search.debounced = <<>>
    /\ \A i \in Searches : search.requests[i].pc = "idle"

\* C30: once every searchLocation request in flight has completed (none
\* having failed), searchResults holds the response to the last keyword
\* typed, or is empty if that keyword is blank.
C30_ResultsOfLastKeyword ==
    (SearchQuiet /\ ~search.failed) =>
        search.searchResults =
            IF trim(search.searchKeyword) = <<>> THEN <<>>
            ELSE SearchResponse(trim(search.searchKeyword))

====
